---- MODULE Spec2Model ----
(***************************************************************************)
(* bcontext.base: a stack of Context layers (ContextStack), each holding a *)
(* local settings tree, and the cached aggregate of those trees that       *)
(* ContextStack.settings() returns.                                        *)
(*                                                                         *)
(* Values of a settings tree are tagged records, so that None, strings and *)
(* nested mappings stay distinct:                                          *)
(*   None      [type |-> "NoneType", val |-> <<>>]                         *)
(*   "ab!"     [type |-> "str",  val |-> <<"a","b","!">>]                  *)
(*   {k: v}    [type |-> "dict", val |-> [k \in {..} |-> v]]               *)
(* A tree (an OrderedDict) is a function from its keys to such values.     *)
(* The order of sibling keys is not modelled.                              *)
(***************************************************************************)
EXTENDS Integers, Sequences, FiniteSets, TLC

VARIABLES stack, kvstore, num_aggregated_kvstores, ret,
          auto_register_instance, value_cache, daemon

vars == <<stack, kvstore, num_aggregated_kvstores, ret,
          auto_register_instance, value_cache, daemon>>

----------------------------------------------------------------------------
(* Bounds of the model *)

\* the largest stack length the stack machine Spec builds
MaxStack == 3

\* the largest stack length the key-structure machine SpecKeys builds
MaxLayers == 3

\* layers of the stack in SpecRegistry
MaxRegLayers == 2

\* registry entries of all layers together in SpecRegistry
MaxRegistered == 3

\* the largest stack length the call machine SpecCalls builds
MaxCallStack == 3

\* layers of the stack in SpecCreate
MaxCreateLayers == 2

\* registry entries of all layers together in SpecCreate
MaxCreateEntries == 2

\* the largest stack length the client machine SpecClient builds
MaxClientLayers == 2

\* layers of the stack in SpecLookup
MaxLookupLayers == 2

\* the largest stack length the edit machine SpecEdit builds
MaxEditStack == 2

\* layers of the stack in SpecSchema
MaxSchemaLayers == 2

\* registry entries of all layers together in SpecSchema
MaxSchemaEntries == 2

\* layers of the stack in SpecFail
MaxFailLayers == 2

\* SIGTERM signals delivered to the process during one execute
MaxSignals == 2

\* registry entries of all layers together in SpecFail
MaxFailEntries == 3

\* registry entries of all layers together in SpecLookup
MaxLookupEntries == 2

----------------------------------------------------------------------------
(* Values *)

None == [type |-> "NoneType", val |-> <<>>]

Str(s) == [type |-> "str", val |-> s]

Dict(f) == [type |-> "dict", val |-> f]

IsDict(v) == v.type = "dict"

\* OrderedDict()
OrderedDict == [k \in {} |-> None]

S1 == Str(<<"1">>)
S2 == Str(<<"2">>)
SBase == Str(<<"b", "a", "s", "e">>)
SBaseBang == Str(<<"b", "a", "s", "e", "!">>)

\* hasattr(value, 'endswith'): of the values modelled, only strings have it
HasEndswith(v) == v.type = "str"

\* value.endswith('!')
EndsWithBang(v) == Len(v.val) > 0 /\ v.val[Len(v.val)] = "!"

\* value[:-1]
DropLast(v) == Str(SubSeq(v.val, 1, Len(v.val) - 1))

----------------------------------------------------------------------------
(* Merge engine *)

\* AutoResolveAdditiveMergeDelegate._resolve_conflict: the right-hand value
\* wins unless it is None
AutoResolveAdditiveMergeDelegate_resolve_conflict(key, left_value, right_value) ==
    IF right_value = None THEN left_value ELSE right_value

\* a plausible slip: the forced override is never honoured
NoForcedOverride_resolve_conflict(key, left_value, right_value) ==
    AutoResolveAdditiveMergeDelegate_resolve_conflict(key, left_value,
                                                      right_value)

\* a plausible slip: the right-hand value is returned instead of res when no
\* forced override applies
ReturnsRight_resolve_conflict(key, left_value, right_value) ==
    IF right_value # None /\ HasEndswith(left_value) /\ EndsWithBang(left_value)
    THEN DropLast(left_value)
    ELSE right_value

\* a plausible slip: the two sides are swapped, the earlier value wins
LeftWins_resolve_conflict(key, left_value, right_value) ==
    IF HasEndswith(left_value) /\ EndsWithBang(left_value)
    THEN DropLast(left_value)
    ELSE left_value

\* StackAutoResolveAdditiveMergeDelegate._resolve_conflict
_resolve_conflict(key, left_value, right_value) ==
    LET res == AutoResolveAdditiveMergeDelegate_resolve_conflict(
                   key, left_value, right_value)
    IN  IF res = right_value /\ HasEndswith(left_value) /\ EndsWithBang(left_value)
        THEN DropLast(left_value)
        ELSE res

RECURSIVE Diff(_, _)
\* TwoWayDiff.diff(delegate, left, right) followed by delegate.result():
\* the additive merge of the tree right onto the tree left
Diff(left, right) ==
    [k \in (DOMAIN left) \cup (DOMAIN right) |->
        IF k \notin DOMAIN right THEN left[k]
        ELSE IF k \notin DOMAIN left THEN right[k]
        ELSE IF IsDict(left[k]) /\ IsDict(right[k])
             THEN Dict(Diff(left[k].val, right[k].val))
             ELSE _resolve_conflict(k, left[k], right[k])]

----------------------------------------------------------------------------
(* Context *)

\* Context.__init__(name): reset() gives an empty kvstore and registry
Context(name) == [name |-> name, registry |-> <<>>, kvstore |-> OrderedDict]

\* a Context whose kvstore was filled before it is handed to the stack
ContextWith(name, tree) == [name |-> name, registry |-> <<>>, kvstore |-> tree]

\* Context.settings()._data()
Settings(ctx) == ctx.kvstore

----------------------------------------------------------------------------
(* ContextStack._aggregated_kvstore *)

\* the delegate's result before any diff ran
NoValue == [has |-> FALSE, data |-> OrderedDict]

Value(tree) == [has |-> TRUE, data |-> tree]

\* "aggregated_base or OrderedDict()": None and the empty mapping are falsy
BaseOrEmpty(aggregated_base) ==
    IF aggregated_base.has /\ DOMAIN aggregated_base.data # {}
    THEN aggregated_base.data
    ELSE OrderedDict

RECURSIVE LoopFromOne(_, _, _, _)
\* a plausible slip: range(start_at + 1, ...), the first layer is skipped
LoopFromOne(stk, eid, result, aggregated_base) ==
    IF eid + 1 > Len(stk) THEN result
    ELSE LET base == IF result = NoValue THEN BaseOrEmpty(aggregated_base)
                     ELSE result.data
         IN  LoopFromOne(stk, eid + 1,
                         Value(Diff(base, Settings(stk[eid + 1]))),
                         aggregated_base)

RECURSIVE LoopForgetsResult(_, _, _, _)
\* a plausible slip: the base of every diff is aggregated_base, the
\* delegate's running result is not carried on
LoopForgetsResult(stk, eid, result, aggregated_base) ==
    IF eid > Len(stk) THEN result
    ELSE LoopForgetsResult(stk, eid + 1,
                           Value(Diff(BaseOrEmpty(aggregated_base),
                                      Settings(stk[eid]))),
                           aggregated_base)

RECURSIVE AggregateLoop(_, _, _, _)
\* for eid in range(start_at, len(self._stack)); eid counts from 1 here
AggregateLoop(stk, eid, result, aggregated_base) ==
    IF eid > Len(stk) THEN result
    ELSE LET base == IF result = NoValue THEN BaseOrEmpty(aggregated_base)
                     ELSE result.data
         IN  AggregateLoop(stk, eid + 1,
                           Value(Diff(base, Settings(stk[eid]))),
                           aggregated_base)

\* a plausible slip: start_at is ignored, every layer is folded onto the base
AggregateIgnoresStart(stk, aggregated_base, start_at) ==
    LET res == AggregateLoop(stk, 1, NoValue, aggregated_base)
    IN  IF res = NoValue
        THEN [raised |-> ~aggregated_base.has,
              data |-> aggregated_base.data,
              num |-> Len(stk)]
        ELSE [raised |-> FALSE, data |-> res.data, num |-> Len(stk)]

\* _aggregated_kvstore(aggregated_base, start_at): the new kvstore, the new
\* folded count, and whether the assertion on aggregated_base failed
_aggregated_kvstore(stk, aggregated_base, start_at) ==
    LET res == AggregateLoop(stk, start_at + 1, NoValue, aggregated_base)
    IN  IF res = NoValue
        THEN [raised |-> ~aggregated_base.has,
              data |-> aggregated_base.data,
              num |-> Len(stk)]
        ELSE [raised |-> FALSE, data |-> res.data, num |-> Len(stk)]

----------------------------------------------------------------------------
(* ContextStack: the cache and the edit interface *)

\* the _kvstore slot when it is unset (LazyMixin fills it on the next read)
Unset == [has |-> FALSE, data |-> OrderedDict]

\* a plausible slip: a removal leaves the cache and the folded count alone
KeepCache(kv, num) == [kvstore |-> kv, num |-> num]

\* mutant: the cache is deleted, the folded count stays
MarkKeepsCount(kv, num) == [kvstore |-> Unset, num |-> num]

\* mutant: the folded count goes to 0, the cache stays
MarkKeepsKvstore(kv, num) == [kvstore |-> kv, num |-> 0]

\* _mark_rebuild_changed_context: del self._kvstore, folded count to 0
_mark_rebuild_changed_context(kv, num) == [kvstore |-> Unset, num |-> 0]

\* a plausible slip: the guard counts the base context as poppable
PopTopCountsBase(st) ==
    IF Len(st.stack) < 1
    THEN [st EXCEPT !.raised = "ValueError"]
    ELSE [stack |-> SubSeq(st.stack, 1, Len(st.stack) - 1),
          kvstore |-> Unset, num |-> 0, raised |-> "None"]

\* a plausible slip: the cache is dropped before the guard raises
PopTopMarksBeforeGuard(st) ==
    IF Len(st.stack) - 1 < 1
    THEN [st EXCEPT !.kvstore = Unset, !.num = 0, !.raised = "ValueError"]
    ELSE [stack |-> SubSeq(st.stack, 1, Len(st.stack) - 1),
          kvstore |-> Unset, num |-> 0, raised |-> "None"]

\* mutant: the context is removed, the cache is not marked for a rebuild
PopTopKeepsCache(st) ==
    IF Len(st.stack) - 1 < 1
    THEN [st EXCEPT !.raised = "ValueError"]
    ELSE [st EXCEPT !.stack = SubSeq(st.stack, 1, Len(st.stack) - 1)]

\* pop() with until_size = -1, lines 359-370: st is the stack object's state
\* [stack, kvstore, num, raised]
PopTop(st) ==
    IF Len(st.stack) - 1 < 1
    THEN [st EXCEPT !.raised = "ValueError"]
    ELSE LET m == _mark_rebuild_changed_context(st.kvstore, st.num)
         IN  [stack |-> SubSeq(st.stack, 1, Len(st.stack) - 1),
              kvstore |-> m.kvstore,
              num |-> m.num,
              raised |-> "None"]

\* mutant: an if in place of the while, at most one context is popped
PopUntilOnce(st, until_size, n) ==
    IF until_size = Len(st.stack) \/ st.raised # "None"
    THEN [st |-> st, n |-> n]
    ELSE [st |-> PopTop(st), n |-> n + 1]

RECURSIVE PopUntil(_, _, _)
\* while until_size != len(self): res.append(self.pop()); n counts the
\* contexts appended to res. An exception of the inner pop() leaves the loop.
PopUntil(st, until_size, n) ==
    IF until_size = Len(st.stack) \/ st.raised # "None"
    THEN [st |-> st, n |-> n]
    ELSE PopUntil(PopTop(st), until_size, n + 1)

\* mutant: until_size is not checked before the loop starts popping
PopWithoutSizeChecks(st, until_size) ==
    IF until_size > -1
    THEN LET r == PopUntil(st, until_size, 0)
             m == _mark_rebuild_changed_context(r.st.kvstore, r.st.num)
         IN  IF r.st.raised = "None" /\ r.n > 0
             THEN [r.st EXCEPT !.kvstore = m.kvstore, !.num = m.num]
             ELSE r.st
    ELSE PopTop(st)

\* mutant: the cache is marked for a rebuild whether or not res is empty
PopMarksAlways(st, until_size) ==
    IF until_size > -1
    THEN IF until_size > Len(st.stack) \/ until_size = 0
         THEN [st EXCEPT !.raised = "ValueError"]
         ELSE LET r == PopUntil(st, until_size, 0)
                  m == _mark_rebuild_changed_context(r.st.kvstore, r.st.num)
              IN  IF r.st.raised = "None"
                  THEN [r.st EXCEPT !.kvstore = m.kvstore, !.num = m.num]
                  ELSE r.st
    ELSE PopTop(st)

\* ContextStack.pop(until_size)
pop(st, until_size) ==
    IF until_size > -1
    THEN IF until_size > Len(st.stack) \/ until_size = 0
         THEN [st EXCEPT !.raised = "ValueError"]
         ELSE LET r == PopUntil(st, until_size, 0)
                  m == _mark_rebuild_changed_context(r.st.kvstore, r.st.num)
              IN  IF r.st.raised = "None" /\ r.n > 0
                  THEN [r.st EXCEPT !.kvstore = m.kvstore, !.num = m.num]
                  ELSE r.st
    ELSE PopTop(st)

\* mutant: the cache is not marked for a rebuild
ResetKeepsCache(st, context) ==
    [stack |-> <<context>>, kvstore |-> st.kvstore, num |-> st.num,
     raised |-> "None"]

\* ContextStack.reset(context)
reset(st, context) ==
    LET m == _mark_rebuild_changed_context(st.kvstore, st.num)
    IN  [stack |-> <<context>>, kvstore |-> m.kvstore, num |-> m.num,
         raised |-> "None"]

\* mutant: the context is put below the others
PushFront(st, context) == [st EXCEPT !.stack = <<context>> \o st.stack]

\* mutant: a push marks the cache for a rebuild, as a removal does
PushMarksRebuild(st, context) ==
    [st EXCEPT !.stack = Append(st.stack, context),
               !.kvstore = Unset, !.num = 0]

\* ContextStack.push(context)
push(st, context) == [st EXCEPT !.stack = Append(st.stack, context)]

\* reading self._kvstore: LazyMixin calls _set_cache_('_kvstore') when the
\* slot is unset, which stores _aggregated_kvstore()
ReadKvstore(st) ==
    IF st.kvstore.has THEN st
    ELSE LET a == _aggregated_kvstore(st.stack, NoValue, 0)
         IN  IF a.raised
             THEN [st EXCEPT !.num = a.num, !.raised = "AssertionError"]
             ELSE [st EXCEPT !.num = a.num, !.kvstore = Value(a.data)]

\* mutant: the cache is returned as it is, the layers pushed after it was
\* filled are not folded in
SettingsReadsOnly(st) == ReadKvstore(st)

\* mutant: every call folds all layers anew
SettingsFromScratch(st) ==
    LET a == _aggregated_kvstore(st.stack, NoValue, 0)
    IN  [st EXCEPT !.num = a.num, !.kvstore = Value(a.data)]

\* ContextStack.settings()
settings(st) ==
    LET s1 == ReadKvstore(st)
    IN  IF s1.raised # "None" THEN s1
        ELSE IF s1.num # Len(s1.stack)
        THEN LET a == _aggregated_kvstore(s1.stack, s1.kvstore, s1.num)
             IN  [s1 EXCEPT !.num = a.num, !.kvstore = Value(a.data)]
        ELSE s1

----------------------------------------------------------------------------
(* ContextStack: what push, pop and reset return *)

\* the argument of push: a string names a new empty Context, a Context
\* instance is taken as it is. arg is [isstring, name] or [isstring, context]
PushedContext(arg) ==
    IF arg.isstring THEN Context(arg.name) ELSE arg.context

\* the argument of reset: context or self.ContextType('default').
\* arg is [given, context]; not given stands for None
ResetContextOf(arg) ==
    IF arg.given THEN arg.context ELSE Context("default")

\* res = self._stack.pop()
PopTopReturns(st) == st.stack[Len(st.stack)]

RECURSIVE PopUntilReturns(_, _, _)
\* while until_size != len(self): res.append(self.pop()); res is the list
\* built so far
PopUntilReturns(st, until_size, res) ==
    IF until_size = Len(st.stack) \/ PopTop(st).raised # "None"
    THEN res
    ELSE PopUntilReturns(PopTop(st), until_size,
                         Append(res, PopTopReturns(st)))

\* what pop(until_size) returns when it does not raise
pop_returns(st, until_size) ==
    IF until_size > -1
    THEN PopUntilReturns(st, until_size, <<>>)
    ELSE PopTopReturns(st)

----------------------------------------------------------------------------
(* Context: the registry *)

\* A registered object is either a class object or an instance of a class:
\*   the class P1            [istype |-> TRUE,  cls |-> "P1", id |-> 0]
\*   an instance of P1       [istype |-> FALSE, cls |-> "P1", id |-> 1]
\* Two objects are the same object iff they are the same record.
Type(cls) == [istype |-> TRUE, cls |-> cls, id |-> 0]

Instance(cls, id) == [istype |-> FALSE, cls |-> cls, id |-> id]

\* the classes a class derives from, itself included:
\* class P1(I1, Plugin), class P01(I0, I1, Plugin), a class Q1(I1) that
\* is no Plugin, and two ContextStackClient classes CA and CB
Mro(cls) ==
    CASE cls = "P1"  -> {"P1", "I1", "Plugin", "object"}
      [] cls = "P01" -> {"P01", "I0", "I1", "Plugin", "object"}
      [] cls = "Q1"  -> {"Q1", "I1", "object"}
      [] cls = "CA"  -> {"CA", "ContextStackClient", "object"}
      [] cls = "CB"  -> {"CB", "ContextStackClient", "object"}
      [] OTHER       -> {cls, "object"}

\* isinstance(item, type)
IsType(item) == item.istype

\* issubclass(item, interface), item a class object
issubclass(item, interface) == interface \in Mro(item.cls)

\* isinstance(item, interface): a class object is an instance of its
\* metaclass only, an instance is one of every class its class derives from
isinstance(item, interface) ==
    IF IsType(item) THEN interface \in {"type", "object"}
    ELSE interface \in Mro(item.cls)

\* A predicate f(item) => Bool is modelled by the set of items it accepts.

\* mutant: the registry is walked in registration order
RECURSIVE FilterForward(_, _, _, _)
FilterForward(registry, i, interface, predicate) ==
    IF i < 1 THEN <<>>
    ELSE LET item == registry[i]
             rest == FilterForward(registry, i - 1, interface, predicate)
         IN IF /\ \/ isinstance(item, interface)
                  \/ IsType(item) /\ issubclass(item, interface)
               /\ item \in predicate
            THEN Append(rest, item)
            ELSE rest

\* the loop of _filter_registry over reversed(registry), from index i down
RECURSIVE FilterLoop(_, _, _, _)
FilterLoop(registry, i, interface, predicate) ==
    IF i < 1 THEN <<>>
    ELSE LET item == registry[i]
             rest == FilterLoop(registry, i - 1, interface, predicate)
         IN IF /\ \/ isinstance(item, interface)
                  \/ IsType(item) /\ issubclass(item, interface)
               /\ item \in predicate
            THEN <<item>> \o rest
            ELSE rest

_filter_registry(ctx, interface, predicate) ==
    FilterLoop(ctx.registry, Len(ctx.registry), interface, predicate)

\* Context.classes: the predicate is wrapped as
\* lambda x: isinstance(x, type) and predicate(x)
Context_classes(ctx, interface, predicate) ==
    _filter_registry(ctx, interface, {x \in predicate : IsType(x)})

\* Context.instances: the predicate is wrapped as
\* lambda x: not isinstance(x, type) and predicate(x)
Context_instances(ctx, interface, predicate) ==
    _filter_registry(ctx, interface, {x \in predicate : ~IsType(x)})

\* the items of a sequence
Range(seq) == {seq[i] : i \in 1 .. Len(seq)}

\* mutant: the plugin is appended without looking for it in the registry
RegisterAlwaysAppends(ctx, plugin) ==
    [ctx |-> [ctx EXCEPT !.registry = Append(@, plugin)], value |-> plugin]

\* Context.register: the context afterwards and the returned value
Context_register(ctx, plugin) ==
    [ctx   |-> IF plugin \notin Range(ctx.registry)
               THEN [ctx EXCEPT !.registry = Append(@, plugin)]
               ELSE ctx,
     value |-> plugin]

----------------------------------------------------------------------------
(* ContextStack: the registry queries *)

\* ContextStack.classes: for ctx in reversed(_stack), from layer i down
RECURSIVE ClassesLoop(_, _, _, _)
ClassesLoop(stk, i, interface, predicate) ==
    IF i < 1 THEN <<>>
    ELSE Context_classes(stk[i], interface, predicate)
             \o ClassesLoop(stk, i - 1, interface, predicate)

classes(st, interface, predicate) ==
    ClassesLoop(st.stack, Len(st.stack), interface, predicate)

\* mutant: the matches of a layer are put behind those of the layers below
RECURSIVE InstancesLoopBaseFirst(_, _, _, _, _)
InstancesLoopBaseFirst(stk, i, interface, predicate, find_all) ==
    IF i < 1 THEN <<>>
    ELSE LET found == Context_instances(stk[i], interface, predicate)
         IN IF ~find_all THEN found
            ELSE InstancesLoopBaseFirst(stk, i - 1, interface, predicate,
                                        find_all) \o found

\* ContextStack.instances: for ctx in reversed(_stack), from layer i down;
\* without find_all the loop is left after its first pass
RECURSIVE InstancesLoop(_, _, _, _, _)
InstancesLoop(stk, i, interface, predicate, find_all) ==
    IF i < 1 THEN <<>>
    ELSE LET found == Context_instances(stk[i], interface, predicate)
         IN IF ~find_all THEN found
            ELSE found \o InstancesLoop(stk, i - 1, interface, predicate,
                                        find_all)

instances(st, interface, predicate, find_all) ==
    InstancesLoop(st.stack, Len(st.stack), interface, predicate, find_all)

\* mutant: the plugin is registered in the base context
RegisterInBase(st, plugin) ==
    [st EXCEPT !.stack[1] = Context_register(@, plugin).ctx]

\* mutant: registering marks the cache for a rebuild, as a removal does
RegisterMarksRebuild(st, plugin) ==
    [st EXCEPT !.stack[Len(st.stack)] = Context_register(@, plugin).ctx,
               !.kvstore = Unset, !.num = 0]

\* mutant: every context of the stack registers the plugin
RegisterInAllLayers(st, plugin) ==
    [st EXCEPT !.stack = [i \in 1 .. Len(st.stack) |->
                             Context_register(st.stack[i], plugin).ctx]]

\* ContextStack.register: the top context registers the plugin
register(st, plugin) ==
    [st EXCEPT !.stack[Len(st.stack)] = Context_register(@, plugin).ctx]

----------------------------------------------------------------------------
(* ContextStack.new_instances *)

\* the classes that derive from Plugin and so carry the class attribute
\* _auto_register_instance
PluginClasses == {"P1", "P01"}

\* hasattr(cls, '_auto_register_instance')
HasAutoRegister(cls) == "Plugin" \in Mro(cls.cls)

\* the largest id of the instances in seq, 0 when it has none
RECURSIVE MaxId(_)
MaxId(seq) ==
    IF seq = <<>> THEN 0
    ELSE LET rest == MaxId(Tail(seq))
         IN  IF Head(seq).id > rest THEN Head(seq).id ELSE rest

\* the largest id of the instances registered in the layers of stk
RECURSIVE MaxRegisteredId(_)
MaxRegisteredId(stk) ==
    IF stk = <<>> THEN 0
    ELSE LET rest == MaxRegisteredId(Tail(stk))
             here == MaxId(Head(stk).registry)
         IN  IF here > rest THEN here ELSE rest

\* an id no instance of a registry of st or of the list created has
FreshId(st, created) ==
    LET a == MaxRegisteredId(st.stack)
        b == MaxId(created)
    IN  1 + IF a > b THEN a ELSE b

\* every object there can be: what the default predicate
\* (lambda cls: True) accepts
AllItems == [istype : BOOLEAN, cls : STRING, id : Nat]

\* cls(*args, **kwargs): the constructor of class cls, run while the flags
\* of the plugin classes are flags. It raises for the classes in raising;
\* otherwise it makes an object no registry and no list holds yet, and a
\* Plugin whose flag is set registers that object with the top context.
Construct(cls, st, flags, created, raising) ==
    LET new == Instance(cls.cls, FreshId(st, created))
    IN  IF cls.cls \in raising
        THEN [raised |-> "Error", st |-> st, instance |-> None]
        ELSE [raised |-> "None",
              st |-> IF HasAutoRegister(cls) /\ flags[cls.cls]
                     THEN register(st, new) ELSE st,
              instance |-> new]

\* maycreate(cls, created): the predicates callers pass, by name
MayCreate(maycreate, cls, created) ==
    CASE maycreate = "Always" -> TRUE
      [] maycreate = "First"  -> created = <<>>
      [] maycreate = "OnlyQ1" -> cls.cls = "Q1"
      [] OTHER                -> FALSE

\* mutant: the flag is put back only when the constructor returned
RestoreUnlessRaised(flags, cls, pv, raised) ==
    IF HasAutoRegister(cls) /\ raised = "None"
    THEN [flags EXCEPT ![cls.cls] = pv]
    ELSE flags

\* the finally clause: cls._auto_register_instance = pv
Restore(flags, cls, pv, raised) ==
    IF HasAutoRegister(cls) THEN [flags EXCEPT ![cls.cls] = pv] ELSE flags

\* cls._auto_register_instance = False, for a plugin class
Suppress(flags, cls) ==
    IF HasAutoRegister(cls) THEN [flags EXCEPT ![cls.cls] = FALSE] ELSE flags

\* mutant: the created instance is registered whatever take_ownership says
OwnAlways(st, instance, take_ownership) == register(st, instance)

\* if take_ownership: self.register(instances[-1])
Own(st, instance, take_ownership) ==
    IF take_ownership THEN register(st, instance) ELSE st

\* not maycreate(cls, created): continue
Ask(maycreate, cls, created) == MayCreate(maycreate, cls, created)

\* the loop of new_instances over types, from its k-th class on. acc holds
\* the stack object (st), the flags of the plugin classes, the list
\* instances, what was raised, and two logs: calls, the arguments of every
\* maycreate call, and observed, the class and the flag it had during every
\* constructor run of a plugin class.
RECURSIVE NewInstancesLoop(_, _, _, _, _, _)
NewInstancesLoop(types, k, acc, maycreate, take_ownership, raising) ==
    IF k > Len(types) \/ acc.raised # "None" THEN acc
    ELSE
      LET cls == types[k]
          asked == [acc EXCEPT !.calls =
                       Append(@, [cls |-> cls, instances |-> acc.instances])]
      IN
        IF ~Ask(maycreate, cls, acc.instances)
        THEN NewInstancesLoop(types, k + 1, asked, maycreate,
                              take_ownership, raising)
        ELSE
          LET pv == IF HasAutoRegister(cls) THEN acc.flags[cls.cls] ELSE FALSE
              during == Suppress(acc.flags, cls)
              c == Construct(cls, acc.st, during, acc.instances, raising)
              done == c.raised = "None"
          IN  NewInstancesLoop(types, k + 1,
                  [st |-> IF done THEN Own(c.st, c.instance, take_ownership)
                          ELSE c.st,
                   flags |-> Restore(during, cls, pv, c.raised),
                   instances |-> IF done THEN Append(acc.instances, c.instance)
                                 ELSE acc.instances,
                   raised |-> c.raised,
                   calls |-> asked.calls,
                   observed |-> IF HasAutoRegister(cls)
                                THEN Append(acc.observed,
                                            [cls |-> cls,
                                             flag |-> during[cls.cls]])
                                ELSE acc.observed],
                  maycreate, take_ownership, raising)

\* mutant: when a constructor raised, the registrations of the call are
\* undone
NewInstancesRollsBack(st, flags, interface, maycreate, take_ownership, raising) ==
    LET r == NewInstancesLoop(classes(st, interface, AllItems), 1,
                              [st |-> st, flags |-> flags, instances |-> <<>>,
                               raised |-> "None", calls |-> <<>>,
                               observed |-> <<>>],
                              maycreate, take_ownership, raising)
    IN  IF r.raised # "None" THEN [r EXCEPT !.st = st] ELSE r

\* ContextStack.new_instances(interface, maycreate, take_ownership)
new_instances(st, flags, interface, maycreate, take_ownership, raising) ==
    NewInstancesLoop(classes(st, interface, AllItems), 1,
                     [st |-> st, flags |-> flags, instances |-> <<>>,
                      raised |-> "None", calls |-> <<>>, observed |-> <<>>],
                     maycreate, take_ownership, raising)

----------------------------------------------------------------------------
(* ContextStack.schema_validator *)

\* ContextStackClient.schema(): the class-level _schema of the client's
\* class; CA holds the schema "SA", CB the schema "SB"
ClientSchemaOf(client) == IF client.cls = "CA" THEN "SA" ELSE "SB"

\* a Context of a subclass that has a schema() method, returning schema
SchemaContext(name, schema) ==
    [name |-> name, registry |-> <<>>, kvstore |-> OrderedDict,
     schema |-> schema]

\* hasattr(ctx, 'schema')
HasSchema(ctx) == "schema" \in DOMAIN ctx

\* reversed(seq)
Reversed(seq) == [n \in 1 .. Len(seq) |-> seq[Len(seq) + 1 - n]]

\* mutant: the client schemas are appended without looking for them in the
\* validator
RECURSIVE ClientsLoopNoCheck(_, _, _)
ClientsLoopNoCheck(validator, clients, k) ==
    IF k > Len(clients) THEN validator
    ELSE ClientsLoopNoCheck(Append(validator, ClientSchemaOf(clients[k])),
                            clients, k + 1)

\* for client in reversed(ctx.instances(ContextStackClient)), from the k-th
\* client on: if schema not in validator: validator.append(schema)
RECURSIVE ClientsLoop(_, _, _)
ClientsLoop(validator, clients, k) ==
    IF k > Len(clients) THEN validator
    ELSE LET schema == ClientSchemaOf(clients[k])
         IN  ClientsLoop(IF schema \notin Range(validator)
                         THEN Append(validator, schema) ELSE validator,
                         clients, k + 1)

\* for ctx in self._stack, from layer i on
RECURSIVE ValidatorLoop(_, _, _)
ValidatorLoop(stk, i, validator) ==
    IF i > Len(stk) THEN validator
    ELSE LET ctx == stk[i]
             own == IF HasSchema(ctx) THEN Append(validator, ctx.schema)
                    ELSE validator
             clients == Reversed(Context_instances(ctx, "ContextStackClient",
                                                   AllItems))
         IN  ValidatorLoop(stk, i + 1, ClientsLoop(own, clients, 1))

\* ContextStack.schema_validator(): the schemas the validator holds, in the
\* order they were appended
schema_validator(st) == ValidatorLoop(st.stack, 1, <<>>)

----------------------------------------------------------------------------
(* Inputs *)

\* the name a caller gives push() as a string
EnvName == "env001"

\* trees of the stack machine: one key, every kind of leaf value
NameTrees ==
    {OrderedDict} \cup {[k \in {"name"} |-> v] : v \in {None, S1, S2, SBaseBang}}

\* Context instances a caller hands to push() or reset() in Spec
StackContexts == {ContextWith("ctx", t) : t \in NameTrees}

\* trees of the key-structure machine: two leaf keys and a nested mapping.
\* A key holds a mapping in every tree or in none: what the merge does when a
\* mapping meets a leaf is decided by TwoWayDiff, which the sources here do
\* not show and the specification does not describe.
FlatKeyTrees ==
    {[k \in ks |-> IF k = "name" THEN SBaseBang ELSE lv] :
        ks \in SUBSET {"level", "name"}, lv \in {S1, S2}}

NestedKeyTrees ==
    {[k \in {"sub"} |-> Dict(t)] :
        t \in {OrderedDict, [k \in {"name"} |-> S1], [k \in {"level"} |-> S2]}}
    \cup {[k \in {"level", "sub"} |->
              IF k = "level" THEN S1 ELSE Dict([j \in {"name"} |-> S2])]}

KeyContexts == {ContextWith("ctx", t) : t \in FlatKeyTrees \cup NestedKeyTrees}

\* the until_size arguments tried: the default -1, a value below it, and
\* every size up to one more than the stack can have
UntilSizes(max) == (-2) .. (max + 1)

----------------------------------------------------------------------------
(* The state machine *)

\* the stack object's fields, as the operations take them
Self == [stack |-> stack, kvstore |-> kvstore,
         num |-> num_aggregated_kvstores, raised |-> "None"]

\* store the fields of the stack object an operation left
Store(st) ==
    /\ stack' = st.stack
    /\ kvstore' = st.kvstore
    /\ num_aggregated_kvstores' = st.num

\* store the fields an operation of the stack left; it touches neither the
\* plugin classes nor the client
Update(st) ==
    /\ Store(st)
    /\ UNCHANGED <<auto_register_instance, value_cache, daemon>>

\* what the last call was and what it raised ("None": it returned)
Return(op, arg, st) == [op |-> op, arg |-> arg, raised |-> st.raised]

\* a client that has resolved nothing yet
NoValueCache == [has |-> FALSE, data |-> OrderedDict]

\* the daemon command and its process before execute is called.
\*   pc          where execute stands
\*   show_config args.show_config
\*   given       the caller passed a pid_file
\*   existed     that file was there when execute was called
\*   pid_file    args.pid_file as it is now: "path" or "None"
\*   file        the PID file is on disk now
\*   daemonized  daemonize() was called
\*   handler     the SIGTERM handler of the process: "previous" or "execute"
\*   installed   execute has installed its handler
\*   dt          the local variable dt is bound
\*   thread      "none", "created", "running", "ended" or "joined"
\*   stops       calls of dt.stop_and_join()
\*   signals     SIGTERM signals delivered while execute's handler was set
\*   handled     what the last run of the handler did
\*   left        the way execute was left, once it is on its way out
\*   result      what execute returned, "raised" when it raised
NoDaemon ==
    [pc |-> "idle", show_config |-> FALSE, given |-> FALSE,
     existed |-> FALSE, pid_file |-> "None", file |-> FALSE,
     daemonized |-> FALSE, handler |-> "previous", installed |-> FALSE,
     dt |-> FALSE, thread |-> "none", stops |-> 0, signals |-> 0,
     handled |-> "none", left |-> "none", result |-> "none"]

\* ContextStack(): __init__ builds the default base context through reset()
Init ==
    /\ stack = <<Context("default")>>
    /\ kvstore = Unset
    /\ num_aggregated_kvstores = 0
    /\ ret = [op |-> "init", arg |-> 0, raised |-> "None"]
    /\ auto_register_instance = [cls \in PluginClasses |-> TRUE]
    /\ value_cache = NoValueCache
    /\ daemon = NoDaemon

\* push(name)
PushName(max) ==
    /\ Len(stack) < max
    /\ ret' = Return("push", 0, Self)
    /\ Update(push(Self, Context(EnvName)))

\* push(context)
PushContext(ctxs, max) ==
    /\ Len(stack) < max
    /\ \E ctx \in ctxs :
        /\ ret' = Return("push", 1, Self)
        /\ Update(push(Self, ctx))

\* pop() and pop(until_size); arg is until_size
Pop(max) ==
    \E until_size \in UntilSizes(max) :
        LET st == pop(Self, until_size)
        IN  /\ ret' = Return("pop", until_size, st)
            /\ Update(st)

\* reset()
ResetDefault ==
    /\ ret' = Return("reset", 0, Self)
    /\ Update(reset(Self, Context("default")))

\* reset(context)
ResetContext(ctxs) ==
    \E ctx \in ctxs :
        /\ ret' = Return("reset", 1, Self)
        /\ Update(reset(Self, ctx))

\* settings()
SettingsCall ==
    LET st == settings(Self)
    IN  /\ ret' = Return("settings", 0, st)
        /\ Update(st)

Next ==
    \/ PushName(MaxStack)
    \/ PushContext(StackContexts, MaxStack)
    \/ Pop(MaxStack)
    \/ ResetDefault
    \/ ResetContext(StackContexts)
    \/ SettingsCall

Spec == Init /\ [][Next]_vars

NextKeys ==
    \/ PushName(MaxLayers)
    \/ PushContext(KeyContexts, MaxLayers)
    \/ Pop(MaxLayers)
    \/ ResetDefault
    \/ ResetContext(KeyContexts)
    \/ SettingsCall

SpecKeys == Init /\ [][NextKeys]_vars

----------------------------------------------------------------------------
(* The registry machine *)

\* the objects callers register: two instances of P1 and the classes P1
\* and P01
Objects == {Instance("P1", 1), Instance("P1", 2), Type("P1"), Type("P01")}

\* the interfaces callers look up
Interfaces == {"I0", "I1"}

\* the predicates callers pass: the default (lambda x: True) and one that
\* accepts some of the objects only
AcceptAll == Objects

Predicates == {AcceptAll, {Instance("P1", 2), Type("P01")}}

RECURSIVE NumRegistered(_)
\* the number of registry entries of all layers together
NumRegistered(stk) ==
    IF stk = <<>> THEN 0
    ELSE Len(stk[Len(stk)].registry)
             + NumRegistered(SubSeq(stk, 1, Len(stk) - 1))

\* what the last call was, what it raised and what it returned
ReturnValue(op, arg, st, value) ==
    [op |-> op, arg |-> arg, raised |-> st.raised, value |-> value]

\* ContextStack.register(plugin); it returns nothing
Register ==
    \E plugin \in Objects :
        /\ \/ NumRegistered(stack) < MaxRegistered
           \/ plugin \in Range(stack[Len(stack)].registry)
        /\ ret' = ReturnValue("register", plugin, Self, None)
        /\ Update(register(Self, plugin))

\* layer.register(plugin) on a context of the stack the caller holds;
\* arg is the layer and the plugin
ContextRegister ==
    \E i \in 1 .. Len(stack), plugin \in Objects :
        LET r == Context_register(stack[i], plugin)
        IN  /\ \/ NumRegistered(stack) < MaxRegistered
               \/ plugin \in Range(stack[i].registry)
            /\ ret' = ReturnValue("Context.register",
                                  [layer |-> i, plugin |-> plugin],
                                  Self, r.value)
            /\ Update([Self EXCEPT !.stack[i] = r.ctx])

\* instances(interface, predicate, find_all)
InstancesCall ==
    \E interface \in Interfaces, predicate \in Predicates,
       find_all \in BOOLEAN :
        /\ ret' = ReturnValue("instances",
                              [interface |-> interface,
                               predicate |-> predicate,
                               find_all |-> find_all],
                              Self,
                              instances(Self, interface, predicate, find_all))
        /\ Update(Self)

\* classes(interface, predicate)
ClassesCall ==
    \E interface \in Interfaces, predicate \in Predicates :
        /\ ret' = ReturnValue("classes",
                              [interface |-> interface,
                               predicate |-> predicate],
                              Self,
                              classes(Self, interface, predicate))
        /\ Update(Self)

NextRegistry ==
    \/ PushName(MaxRegLayers)
    \/ Pop(MaxRegLayers)
    \/ Register
    \/ ContextRegister
    \/ InstancesCall
    \/ ClassesCall

SpecRegistry == Init /\ [][NextRegistry]_vars

----------------------------------------------------------------------------
(* The call machine: the edit interface with its return values *)

\* Context instances a caller hands to push() or reset() in SpecCalls
CallContexts ==
    {ContextWith("ctx1", [k \in {"name"} |-> S1]),
     ContextWith("ctx2", [k \in {"name"} |-> S2])}

\* the arguments of push: a name or a Context instance
PushArgs ==
    {[isstring |-> TRUE, name |-> EnvName]}
        \cup {[isstring |-> FALSE, context |-> ctx] : ctx \in CallContexts}

\* the arguments of reset: None or a Context instance
ResetArgs ==
    {[given |-> FALSE, context |-> None]}
        \cup {[given |-> TRUE, context |-> ctx] : ctx \in CallContexts}

\* push(context); the pushed Context instance is returned
PushCall ==
    /\ Len(stack) < MaxCallStack
    /\ \E arg \in PushArgs :
        /\ ret' = ReturnValue("push", arg, Self, PushedContext(arg))
        /\ Update(push(Self, PushedContext(arg)))

\* pop() and pop(until_size); arg is until_size. The top Context or the list
\* of the popped contexts is returned
PopCall ==
    \E until_size \in UntilSizes(MaxCallStack) :
        LET st == pop(Self, until_size)
        IN  /\ ret' = ReturnValue("pop", until_size, st,
                                  IF st.raised = "None"
                                  THEN pop_returns(Self, until_size)
                                  ELSE None)
            /\ Update(st)

\* reset(context); self is returned
ResetCall ==
    \E arg \in ResetArgs :
        /\ ret' = ReturnValue("reset", arg, Self, "self")
        /\ Update(reset(Self, ResetContextOf(arg)))

NextCalls ==
    \/ PushCall
    \/ PopCall
    \/ ResetCall
    \/ SettingsCall

SpecCalls == Init /\ [][NextCalls]_vars

----------------------------------------------------------------------------
(* The creation machine: classes are registered and instantiated *)

\* the classes callers register: the plugin P1, and Q1, which implements
\* I1 without being a Plugin
CreateTypes == {Type("P1"), Type("Q1")}

\* the maycreate predicates callers pass
MayCreates == {"Always", "First", "OnlyQ1"}

\* the sets of classes whose constructor raises
RaisingSets == {{}, {"P1"}}

\* register(cls) on the stack
RegisterType ==
    \E cls \in CreateTypes :
        /\ \/ NumRegistered(stack) < MaxCreateEntries
           \/ cls \in Range(stack[Len(stack)].registry)
        /\ ret' = ReturnValue("register", cls, Self, None)
        /\ Update(register(Self, cls))

\* P1._auto_register_instance = flag, set by the code that owns the class
SetAutoRegister ==
    \E cls \in {"P1"}, flag \in BOOLEAN :
        /\ auto_register_instance' =
               [auto_register_instance EXCEPT ![cls] = flag]
        /\ ret' = [op |-> "setattr", arg |-> [cls |-> cls, flag |-> flag],
                   raised |-> "None"]
        /\ UNCHANGED <<stack, kvstore, num_aggregated_kvstores, value_cache,
                       daemon>>

\* new_instances(interface, maycreate, take_ownership); raising tells which
\* constructors fail. The list instances is returned unless one did.
NewInstancesCall ==
    \E interface \in {"I1"}, maycreate \in MayCreates,
       take_ownership \in BOOLEAN, raising \in RaisingSets :
      \E r \in {new_instances(Self, auto_register_instance, interface,
                              maycreate, take_ownership, raising)} :
        /\ NumRegistered(r.st.stack) <= MaxCreateEntries
        /\ ret' = [op |-> "new_instances",
                   arg |-> [interface |-> interface,
                            maycreate |-> maycreate,
                            take_ownership |-> take_ownership,
                            raising |-> raising],
                   raised |-> r.raised,
                   value |-> r.instances,
                   calls |-> r.calls,
                   observed |-> r.observed]
        /\ Store(r.st)
        /\ auto_register_instance' = r.flags
        /\ UNCHANGED <<value_cache, daemon>>

\* instances(interface) with the default predicate and find_all
LookupCall ==
    \E interface \in {"I1"} :
        /\ ret' = ReturnValue("instances", interface, Self,
                              instances(Self, interface, AllItems, FALSE))
        /\ Update(Self)

\* pop()
PopLayer ==
    LET st == pop(Self, -1)
    IN  /\ ret' = Return("pop", -1, st)
        /\ Update(st)

NextCreate ==
    \/ PushName(MaxCreateLayers)
    \/ PopLayer
    \/ RegisterType
    \/ SetAutoRegister
    \/ NewInstancesCall
    \/ LookupCall

SpecCreate == Init /\ [][NextCreate]_vars

----------------------------------------------------------------------------
(* The client of the stack: a PropertyEnvironmentStackContextClient whose  *)
(* schema has the two string properties level and name, and its value      *)
(* cache (the variable value_cache)                                        *)

\* the property names of the client's schema
ClientSchema == {"level", "name"}

\* the default of a str property that the settings do not give
StrDefault == Str(<<>>)

\* one property resolved against the aggregate tree: the string set there,
\* else the default of the type
Resolve(tree, name) ==
    IF name \in DOMAIN tree /\ tree[name].type = "str" THEN tree[name]
    ELSE StrDefault

\* the whole schema subtree resolved against the aggregate tree
ResolveSchema(tree) == [name \in ClientSchema |-> Resolve(tree, name)]

\* client.has_value_cache()
has_value_cache(vc) == vc.has

\* mutant: the cache is left in place
ClearNothing(vc) == vc

\* client.clear_value_cache(): the cache is discarded
clear_value_cache(vc) == NoValueCache

\* client.value_cache(): the cache kept from an earlier call, else the schema
\* resolved against settings() of the stack. The result is [st, vc]: the
\* stack object after the call and the client's cache.
value_cache_of(st, vc) ==
    IF vc.has THEN [st |-> st, vc |-> vc]
    ELSE LET s == settings(st)
         IN  IF s.raised # "None" THEN [st |-> s, vc |-> vc]
             ELSE [st |-> s, vc |-> Value(ResolveSchema(s.kvstore.data))]

\* Context instances a caller pushes in SpecClient: level and name set or not
ClientContexts == {ContextWith("ctx", t) : t \in FlatKeyTrees}

\* client.has_value_cache(); the answer is the field has of ret
HasValueCacheCall ==
    /\ ret' = [op |-> "has_value_cache", arg |-> 0, raised |-> "None",
               has |-> has_value_cache(value_cache)]
    /\ UNCHANGED <<stack, kvstore, num_aggregated_kvstores,
                   auto_register_instance, value_cache, daemon>>

\* client.clear_value_cache(); it returns self, the one client there is
ClearValueCacheCall ==
    /\ ret' = [op |-> "clear_value_cache", arg |-> 0, raised |-> "None",
               self |-> "client"]
    /\ value_cache' = clear_value_cache(value_cache)
    /\ UNCHANGED <<stack, kvstore, num_aggregated_kvstores,
                   auto_register_instance, daemon>>

\* client.value_cache(); it returns the cache's values
ValueCacheCall ==
    \E r \in {value_cache_of(Self, value_cache)} :
        /\ ret' = [op |-> "value_cache", arg |-> 0, raised |-> r.st.raised,
                   value |-> r.vc.data]
        /\ value_cache' = r.vc
        /\ Store(r.st)
        /\ UNCHANGED <<auto_register_instance, daemon>>

\* reading the typed property client.<name>: the descriptor takes the value
\* from value_cache()
PropertyAccess ==
    \E name \in ClientSchema :
        \E r \in {value_cache_of(Self, value_cache)} :
            /\ ret' = [op |-> "property", arg |-> name,
                       raised |-> r.st.raised,
                       value |-> IF r.vc.has THEN r.vc.data[name] ELSE None]
            /\ value_cache' = r.vc
            /\ Store(r.st)
            /\ UNCHANGED <<auto_register_instance, daemon>>

NextClient ==
    \/ PushContext(ClientContexts, MaxClientLayers)
    \/ PopLayer
    \/ HasValueCacheCall
    \/ ClearValueCacheCall
    \/ ValueCacheCall
    \/ PropertyAccess

SpecClient == Init /\ [][NextClient]_vars

----------------------------------------------------------------------------
(* The lookup machine: registry calls on a stack whose layers carry        *)
(* settings and whose aggregate is read in between                         *)

\* register(P1) on the stack
RegisterPlugin ==
    \E cls \in {Type("P1")} :
        /\ \/ NumRegistered(stack) < MaxLookupEntries
           \/ cls \in Range(stack[Len(stack)].registry)
        /\ ret' = ReturnValue("register", cls, Self, None)
        /\ Update(register(Self, cls))

\* new_instances(I1, take_ownership = ...), the constructor of P1 raising
\* or not
CreateCall ==
    \E take_ownership \in BOOLEAN, raising \in RaisingSets :
        \E r \in {new_instances(Self, auto_register_instance, "I1", "Always",
                                take_ownership, raising)} :
            /\ NumRegistered(r.st.stack) <= MaxLookupEntries
            /\ ret' = [op |-> "new_instances",
                       arg |-> [interface |-> "I1", maycreate |-> "Always",
                                take_ownership |-> take_ownership,
                                raising |-> raising],
                       raised |-> r.raised, value |-> r.instances,
                       calls |-> r.calls, observed |-> r.observed]
            /\ Store(r.st)
            /\ auto_register_instance' = r.flags
            /\ UNCHANGED <<value_cache, daemon>>

\* classes(I1) with the default predicate
ClassesLookup ==
    /\ ret' = ReturnValue("classes", "I1", Self, classes(Self, "I1", AllItems))
    /\ Update(Self)

NextLookup ==
    \/ PushContext(CallContexts, MaxLookupLayers)
    \/ PopLayer
    \/ SettingsCall
    \/ RegisterPlugin
    \/ CreateCall
    \/ LookupCall
    \/ ClassesLookup

SpecLookup == Init /\ [][NextLookup]_vars

----------------------------------------------------------------------------
(* The edit machine: a caller changes the tree of a layer that is on the   *)
(* stack, through the kvstore that Context.settings() hands out            *)

\* Context.settings() of layer i, then values set on the returned kvstore:
\* the layer's tree becomes tree, the stack object is not told
EditLayer ==
    \E i \in 1 .. Len(stack), tree \in NameTrees :
        /\ tree # Settings(stack[i])
        /\ ret' = [op |-> "edit", arg |-> i, raised |-> "None"]
        /\ stack' = [stack EXCEPT ![i].kvstore = tree]
        /\ UNCHANGED <<kvstore, num_aggregated_kvstores,
                       auto_register_instance, value_cache, daemon>>

NextEdit ==
    \/ PushContext(StackContexts, MaxEditStack)
    \/ Pop(MaxEditStack)
    \/ ResetDefault
    \/ SettingsCall
    \/ EditLayer

SpecEdit == Init /\ [][NextEdit]_vars

----------------------------------------------------------------------------
(* The schema machine: layers with and without a schema of their own, and  *)
(* client instances registered in them                                     *)

\* the contexts pushed: a plain Context and one of a class with a schema
SchemaContexts == {Context(EnvName), SchemaContext("clientctx", "SA")}

\* the instances registered: two clients of class CA, one of class CB, and
\* a plugin that is no ContextStackClient
SchemaObjects ==
    {Instance("CA", 1), Instance("CA", 2), Instance("CB", 3),
     Instance("P1", 4)}

\* register(instance) on the stack
RegisterClient ==
    \E plugin \in SchemaObjects :
        /\ \/ NumRegistered(stack) < MaxSchemaEntries
           \/ plugin \in Range(stack[Len(stack)].registry)
        /\ ret' = ReturnValue("register", plugin, Self, None)
        /\ Update(register(Self, plugin))

\* schema_validator(); the value is the list of the validator's schemas
SchemaValidatorCall ==
    /\ ret' = ReturnValue("schema_validator", 0, Self, schema_validator(Self))
    /\ Update(Self)

NextSchema ==
    \/ PushContext(SchemaContexts, MaxSchemaLayers)
    \/ PopLayer
    \/ RegisterClient
    \/ SchemaValidatorCall

SpecSchema == Init /\ [][NextSchema]_vars

----------------------------------------------------------------------------
(* The failure machine: new_instances over two classes, the constructor of *)
(* one of them raising                                                     *)

\* the constructors that raise during a call: none, that of P1, that of Q1
FailingSets == {{}, {"P1"}, {"Q1"}}

\* register(cls) on the stack, cls one of the two classes
RegisterClass ==
    \E cls \in CreateTypes :
        /\ \/ NumRegistered(stack) < MaxFailEntries
           \/ cls \in Range(stack[Len(stack)].registry)
        /\ ret' = ReturnValue("register", cls, Self, None)
        /\ Update(register(Self, cls))

\* new_instances(I1, take_ownership = ...) with the default maycreate
FailingCreateCall ==
    \E take_ownership \in BOOLEAN, raising \in FailingSets :
        \E r \in {new_instances(Self, auto_register_instance, "I1", "Always",
                                take_ownership, raising)} :
            /\ NumRegistered(r.st.stack) <= MaxFailEntries
            /\ ret' = [op |-> "new_instances",
                       arg |-> [interface |-> "I1", maycreate |-> "Always",
                                take_ownership |-> take_ownership,
                                raising |-> raising],
                       raised |-> r.raised, value |-> r.instances,
                       calls |-> r.calls, observed |-> r.observed]
            /\ Store(r.st)
            /\ auto_register_instance' = r.flags
            /\ UNCHANGED <<value_cache, daemon>>

NextFail ==
    \/ PushName(MaxFailLayers)
    \/ PopLayer
    \/ RegisterClass
    \/ FailingCreateCall

SpecFail == Init /\ [][NextFail]_vars

----------------------------------------------------------------------------
(* bcmd.daemon: DaemonCommandMixin.execute, statement by statement, the    *)
(* daemon thread, and SIGTERM signals delivered to the process             *)

\* mutant: daemonize() is called before the PID file is looked at
PidFileCheckedAfterDaemonize(d, written) ==
    IF d.pid_file = "None" THEN [d EXCEPT !.pc = "install"]
    ELSE IF d.file
    THEN [d EXCEPT !.daemonized = TRUE, !.pid_file = "None",
                   !.result = "ERROR", !.pc = "done"]
    ELSE [d EXCEPT !.daemonized = TRUE, !.file = written, !.pc = "install"]

\* lines 102-109: an existing PID file ends execute with ERROR, else
\* daemonize(args.pid_file); written: whether the PID file is on disk when
\* daemonize has returned
PidFileChecked(d, written) ==
    IF d.pid_file = "None" THEN [d EXCEPT !.pc = "install"]
    ELSE IF d.file
    THEN [d EXCEPT !.pid_file = "None", !.result = "ERROR", !.pc = "done"]
    ELSE [d EXCEPT !.daemonized = TRUE, !.file = written, !.pc = "install"]

\* lines 95-109: execute(args, remaining_args) up to the signal.signal call
ExecuteBegins(d, show_config, given, existed, written) ==
    LET called == [d EXCEPT !.show_config = show_config, !.given = given,
                            !.existed = existed,
                            !.pid_file = IF given THEN "path" ELSE "None",
                            !.file = existed]
    IN  IF show_config
        THEN [called EXCEPT !.result = "SUCCESS", !.pc = "done"]
        ELSE PidFileChecked(called, written)

\* _sighandler_term(signum, frame, dt): dt.stop_and_join()
_sighandler_term(d) ==
    [d EXCEPT !.stops = @ + 1, !.thread = "joined", !.handled = "stopped"]

\* an exception leaves the statement execute stands at: from inside the
\* try statement control goes to the finally clause, from inside the
\* finally clause it leaves execute
Raised(d, how) ==
    IF d.pc = "finally"
    THEN [d EXCEPT !.result = "raised", !.left = how, !.pc = "done"]
    ELSE [d EXCEPT !.result = "raised", !.left = how, !.pc = "finally"]

\* lambda sig, frame: self._sighandler_term(sig, frame, dt), run by the
\* interpreter between two statements of execute: reading dt before line
\* 113 has bound it raises NameError where execute stands
SigtermHandler(d) ==
    LET got == [d EXCEPT !.signals = @ + 1]
    IN  IF d.dt THEN _sighandler_term(got)
        ELSE Raised([got EXCEPT !.handled = "NameError"], "NameError")

\* lines 138-143: the finally clause
FinallyClause(d) ==
    [d EXCEPT !.handler = "previous",
              !.file = IF d.pid_file = "path" /\ d.file THEN FALSE ELSE @,
              !.result = IF @ = "none" THEN "SUCCESS" ELSE @,
              !.pc = "done"]

\* the frame of every step of the daemon
DaemonStep(d) ==
    /\ daemon' = d
    /\ UNCHANGED <<stack, kvstore, num_aggregated_kvstores, ret,
                   auto_register_instance, value_cache>>

\* execute(args, remaining_args) is called
Execute ==
    /\ daemon.pc = "idle"
    /\ \E show_config, given, existed, written \in BOOLEAN :
          /\ existed => given
          /\ DaemonStep(ExecuteBegins(daemon, show_config, given, existed,
                                      written))

\* line 111: prev_signal = signal.signal(signal.SIGTERM, lambda ...)
InstallHandler ==
    /\ daemon.pc = "install"
    /\ DaemonStep([daemon EXCEPT !.handler = "execute", !.installed = TRUE,
                                 !.pc = "construct"])

\* line 113, right-hand side: self.ThreadType() returns a thread or raises
ConstructThread ==
    /\ daemon.pc = "construct"
    /\ \/ DaemonStep([daemon EXCEPT !.thread = "created", !.pc = "bind"])
       \/ DaemonStep(Raised(daemon, "construct"))

\* line 113, the assignment: self._thread = dt = <the new thread>
BindThread ==
    /\ daemon.pc = "bind"
    /\ DaemonStep([daemon EXCEPT !.dt = TRUE, !.pc = "start"])

\* line 114: dt.start() starts the thread or raises
StartThread ==
    /\ daemon.pc = "start"
    /\ \/ DaemonStep([daemon EXCEPT
                         !.thread = IF @ = "created" THEN "running" ELSE @,
                         !.pc = "wait"])
       \/ DaemonStep(Raised(daemon, "start"))

\* the daemon thread ends by itself
ThreadEnds ==
    /\ daemon.thread = "running"
    /\ DaemonStep([daemon EXCEPT !.thread = "ended"])

\* lines 121 and 131-134: dt.is_alive() is false, the else clause returns
\* SUCCESS
ThreadSeenDead ==
    /\ daemon.pc = "wait"
    /\ daemon.thread \in {"ended", "joined"}
    /\ DaemonStep([daemon EXCEPT !.result = "SUCCESS", !.left = "ended",
                                 !.pc = "finally"])

\* lines 124-125 and 137: KeyboardInterrupt or SystemExit during the wait
WaitInterrupted ==
    /\ daemon.pc = "wait"
    /\ DaemonStep([_sighandler_term(daemon) EXCEPT
                      !.result = "SUCCESS", !.left = "interrupt",
                      !.pc = "finally"])

\* lines 126-130: another exception during the wait, from _check_thread
WaitRaised ==
    /\ daemon.pc = "wait"
    /\ DaemonStep([_sighandler_term(daemon) EXCEPT
                      !.result = "ERROR", !.left = "exception",
                      !.pc = "finally"])

\* lines 138-143
Finally ==
    /\ daemon.pc = "finally"
    /\ DaemonStep(FinallyClause(daemon))

\* a SIGTERM reaches the process while execute runs with its handler set
Sigterm ==
    /\ daemon.pc \in {"construct", "bind", "start", "wait", "finally"}
    /\ daemon.handler = "execute"
    /\ daemon.signals < MaxSignals
    /\ DaemonStep(SigtermHandler(daemon))

NextDaemon ==
    \/ Execute
    \/ InstallHandler
    \/ ConstructThread
    \/ BindThread
    \/ StartThread
    \/ ThreadEnds
    \/ ThreadSeenDead
    \/ WaitInterrupted
    \/ WaitRaised
    \/ Finally
    \/ Sigterm

SpecDaemon == Init /\ [][NextDaemon]_vars

----------------------------------------------------------------------------
(* Vocabulary of the properties *)

\* the local tree of layer i, counted from the base layer 1
Tree(i) == Settings(stack[i])

Layers == 1 .. Len(stack)

\* the last call was settings() and it returned
Returned == ret.op = "settings" /\ ret.raised = "None"

RECURSIVE FoldAll(_)
\* the layers' trees folded from scratch, bottom to top
FoldAll(stk) ==
    IF stk = <<>> THEN OrderedDict
    ELSE Diff(FoldAll(SubSeq(stk, 1, Len(stk) - 1)), Settings(stk[Len(stk)]))

\* the running aggregate below layer i
Below(i) == FoldAll(SubSeq(stack, 1, i - 1))

IsLeaf(v) == v.type # "dict"

\* the layers that set key k
Setting(k) == {j \in Layers : k \in DOMAIN Tree(j)}

Pinned(v) == HasEndswith(v) /\ EndsWithBang(v)

\* the cached aggregate has key k
InAggregate(k) == k \in DOMAIN kvstore.data

\* the cached aggregate holds value v at key k
Holds(k, v) == InAggregate(k) /\ kvstore.data[k] = v

----------------------------------------------------------------------------
(* C1 *)

\* C1: the stack always holds at least one layer, and no pop, whatever its
\* until_size and whether it fails or not, removes or replaces the base layer.
C1_StackNeverEmpty ==
    [][/\ Len(stack') >= 1
       /\ ret'.op = "pop" => stack'[1] = stack[1]]_vars

\* a pop removed a layer and left just the base layer
C1_Witness == ret.op = "pop" /\ ret.raised = "None" /\ Len(stack) = 1

----------------------------------------------------------------------------
(* C2 *)

\* C2: pop() without an argument on a stack of one layer raises ValueError
\* and leaves the layers, the cached aggregate and the folded count as they
\* were.
C2_PopOnBaseFails ==
    [][(ret'.op = "pop" /\ ret'.arg = -1 /\ Len(stack) = 1)
        => /\ ret'.raised = "ValueError"
           /\ UNCHANGED <<stack, kvstore, num_aggregated_kvstores>>]_vars

\* pop() has failed on a one-layer stack whose cache was filled
C2_Witness ==
    /\ ret = [op |-> "pop", arg |-> -1, raised |-> "ValueError"]
    /\ Len(stack) = 1
    /\ kvstore.has
    /\ num_aggregated_kvstores = 1

----------------------------------------------------------------------------
(* C3 *)

\* C3: settings() always returns, and what it returns (the cached aggregate
\* after the call) is the fold from scratch of the trees of the layers that
\* are on the stack, whatever pushes, pops, resets and earlier settings()
\* calls came before.
C3_SettingsIsFoldOfStack ==
    ret.op = "settings"
        => /\ ret.raised = "None"
           /\ kvstore.has
           /\ kvstore.data = FoldAll(stack)

\* settings() has returned a non-empty aggregate for a stack of two or more
\* layers
C3_Witness ==
    /\ Returned
    /\ Len(stack) >= 2
    /\ "name" \in DOMAIN kvstore.data
    /\ "name" \notin DOMAIN Tree(Len(stack))

----------------------------------------------------------------------------
(* C4 *)

\* C4: for the layers on the stack and every split of them into a prefix and
\* the rest, folding the rest onto the aggregate of the prefix gives the tree
\* that folding all layers in one pass gives; and in every state, whatever
\* settings() calls were made between the pushes, the aggregate settings()
\* returns next is that one-pass tree.
C4_IncrementalEqualsOnePass ==
    LET onepass == _aggregated_kvstore(stack, NoValue, 0).data
    IN  /\ \A n \in Layers :
            LET prefix == _aggregated_kvstore(SubSeq(stack, 1, n), NoValue, 0)
            IN  _aggregated_kvstore(stack, Value(prefix.data), n).data = onepass
        /\ settings(Self).kvstore.data = onepass

\* the cache holds the aggregate of two layers, a third was pushed after it
\* was filled, and the pinned value makes the order of folding matter
C4_Witness ==
    /\ kvstore.has
    /\ num_aggregated_kvstores = 2
    /\ Len(stack) = 3
    /\ stack[1].kvstore = [k \in {"name"} |-> SBaseBang]
    /\ stack[3].kvstore = [k \in {"name"} |-> S2]

----------------------------------------------------------------------------
(* C5 *)

\* the keys on which the merge step that folds layer i finds a leaf on both
\* sides, the left one a string ending in '!'
PinnedConflicts(i) ==
    {k \in (DOMAIN Below(i)) \cap (DOMAIN Tree(i)) :
        IsLeaf(Below(i)[k]) /\ IsLeaf(Tree(i)[k]) /\ Pinned(Below(i)[k])}

\* C5 as claimed: in every merge step, a key with a leaf on both sides whose
\* left-hand value is a string ending in '!' gets the left-hand value without
\* its '!', whatever the right-hand value is.
C5_PinnedLeftAlwaysStripped ==
    \A i \in Layers : \A k \in PinnedConflicts(i) :
        Diff(Below(i), Tree(i))[k] = DropLast(Below(i)[k])

\* C5 amended: in every merge step, a key with a leaf on both sides whose
\* left-hand value is a string ending in '!' gets the left-hand value without
\* its '!' when the right-hand value is not None, and the left-hand value as
\* it is, '!' included, when the right-hand value is None.
C5_PinnedLeftStrippedUnlessNone ==
    \A i \in Layers : \A k \in PinnedConflicts(i) :
        Diff(Below(i), Tree(i))[k] =
            IF Tree(i)[k] = None THEN Below(i)[k] ELSE DropLast(Below(i)[k])

\* settings() has folded "1" onto "base!" and returned "base"
C5_Witness ==
    /\ Returned
    /\ Len(stack) = 2
    /\ Tree(1) = [k \in {"name"} |-> SBaseBang]
    /\ Tree(2) = [k \in {"name"} |-> S1]
    /\ kvstore.data = [k \in {"name"} |-> SBase]

----------------------------------------------------------------------------
(* C6 *)

\* layer i is the lowest layer that sets key k
Lowest(i, k) ==
    /\ k \in DOMAIN Tree(i)
    /\ \A j \in 1 .. (i - 1) : k \notin DOMAIN Tree(j)

\* the layers above layer i that set key k
Above(i, k) == {j \in (i + 1) .. Len(stack) : k \in DOMAIN Tree(j)}

\* C6 as claimed: when the lowest layer that sets a key holds a string ending
\* in '!' there, and one or more layers above it set a leaf value other than
\* None at that key, settings() returns the pinned value without its '!' at
\* that key.
C6_PinHoldsAgainstAllLayersAbove ==
    Returned =>
        \A i \in Layers : \A k \in DOMAIN Tree(i) :
            (/\ Lowest(i, k)
             /\ Pinned(Tree(i)[k])
             /\ Above(i, k) # {}
             /\ \A j \in Above(i, k) : IsLeaf(Tree(j)[k]) /\ Tree(j)[k] # None)
            => Holds(k, DropLast(Tree(i)[k]))

----------------------------------------------------------------------------
(* C7 *)

ScenarioFirst == [k \in {"level", "name"} |-> IF k = "level" THEN S1 ELSE SBaseBang]

ScenarioSecond == [k \in {"level"} |-> S2]

\* the two layers of the scenario were pushed onto a new stack, or the first
\* of them is the base layer
ScenarioPushed ==
    \/ /\ Len(stack) = 3
       /\ stack[1] = Context("default")
       /\ Tree(2) = ScenarioFirst
       /\ Tree(3) = ScenarioSecond
    \/ /\ Len(stack) = 2
       /\ Tree(1) = ScenarioFirst
       /\ Tree(2) = ScenarioSecond

\* C7 as claimed: after the two layers of the scenario, settings() returns
\* {level: "2", name: "base"}.
C7_BangStrippedWithoutOverride ==
    (Returned /\ ScenarioPushed)
        => kvstore.data = [k \in {"level", "name"} |->
                              IF k = "level" THEN S2 ELSE SBase]

\* C7 amended: a string ending in '!' keeps its '!' in the aggregate when no
\* other layer sets its key; after the two layers of the scenario settings()
\* returns {level: "2", name: "base!"}.
C7_BangKeptWithoutOverride ==
    Returned =>
        /\ \A i \in Layers : \A k \in DOMAIN Tree(i) :
              (/\ IsLeaf(Tree(i)[k])
               /\ Pinned(Tree(i)[k])
               /\ Setting(k) = {i})
              => Holds(k, Tree(i)[k])
        /\ ScenarioPushed
              => kvstore.data = [k \in {"level", "name"} |->
                                    IF k = "level" THEN S2 ELSE SBaseBang]

\* settings() has returned for the scenario pushed onto a new stack
C7_Witness ==
    /\ Returned
    /\ ScenarioPushed
    /\ Len(stack) = 3

----------------------------------------------------------------------------
(* C8 *)

\* C8: after settings(), a key that holds a value other than None in some
\* layer is never None in the aggregate; and when the lowest layer that sets
\* the key holds a value other than None and every layer above it that sets
\* the key holds None, the aggregate holds the lowest layer's value.
C8_NoneNeverOverrides ==
    Returned =>
        \A i \in Layers : \A k \in DOMAIN Tree(i) :
            Tree(i)[k] # None =>
                /\ InAggregate(k) /\ kvstore.data[k] # None
                /\ (/\ Lowest(i, k)
                    /\ \A j \in Above(i, k) : Tree(j)[k] = None)
                   => Holds(k, Tree(i)[k])

\* settings() has returned "1" for a key that is "1" in the base layer and
\* None in the layer above it
C8_Witness ==
    /\ Returned
    /\ Len(stack) = 2
    /\ Tree(1) = [k \in {"name"} |-> S1]
    /\ Tree(2) = [k \in {"name"} |-> None]
    /\ kvstore.data = [k \in {"name"} |-> S1]

----------------------------------------------------------------------------
(* C10 *)

\* the topmost of a non-empty set of layers
Topmost(js) == CHOOSE j \in js : \A m \in js : m <= j

\* C10: after settings(), a key that two or more layers set, each of them to
\* a string that does not end in '!', holds the value of the topmost of
\* those layers.
C10_TopmostPlainValueWins ==
    Returned =>
        \A k \in DOMAIN kvstore.data :
            (/\ Cardinality(Setting(k)) >= 2
             /\ \A j \in Setting(k) :
                    HasEndswith(Tree(j)[k]) /\ ~EndsWithBang(Tree(j)[k]))
            => Holds(k, Tree(Topmost(Setting(k)))[k])

\* settings() has returned "2" for three layers that set "1", "1" and "2"
C10_Witness ==
    /\ Returned
    /\ Len(stack) = 3
    /\ Tree(1) = [k \in {"name"} |-> S1]
    /\ Tree(2) = [k \in {"name"} |-> S1]
    /\ Tree(3) = [k \in {"name"} |-> S2]
    /\ kvstore.data = [k \in {"name"} |-> S2]

----------------------------------------------------------------------------
(* C9 *)

RECURSIVE Paths(_)
\* the key paths of a tree, those of its nested mappings included
Paths(tree) ==
    {<<k>> : k \in DOMAIN tree}
    \cup UNION {{<<k>> \o p : p \in Paths(tree[k].val)} :
                   k \in {j \in DOMAIN tree : IsDict(tree[j])}}

RECURSIVE At(_, _)
\* the value of a tree at a key path
At(tree, p) ==
    IF Len(p) = 1 THEN tree[p[1]] ELSE At(tree[p[1]].val, Tail(p))

\* the leaf paths of layer i that no layer above it sets
LeafPathsNotSetAbove(i) ==
    {p \in Paths(Tree(i)) :
        /\ IsLeaf(At(Tree(i), p))
        /\ \A j \in (i + 1) .. Len(stack) : p \notin Paths(Tree(j))}

----------------------------------------------------------------------------
(* Vocabulary of the registry properties *)

\* the last call was instances(...) / classes(...)
InstancesReturned == ret.op = "instances" /\ ret.raised = "None"

ClassesReturned == ret.op = "classes" /\ ret.raised = "None"

\* what layer i alone answers to the lookup the last call made
LayerInstances(i) ==
    Context_instances(stack[i], ret.arg.interface, ret.arg.predicate)

LayerClasses(i) ==
    Context_classes(stack[i], ret.arg.interface, ret.arg.predicate)

\* the layers holding an instance the last lookup asks for
MatchingLayers == {i \in Layers : LayerInstances(i) # <<>>}

\* the highest of a non-empty set of layers
Highest(js) == CHOOSE j \in js : \A i \in js : i <= j

----------------------------------------------------------------------------
(* C11 *)

\* C11: instances(X) without find_all returns the matches of the topmost
\* layer that yields at least one match, so its result is non-empty whenever
\* any layer of the stack holds a matching instance.
C11_TopmostMatchingLayerAnswers ==
    (InstancesReturned /\ ~ret.arg.find_all) =>
        IF MatchingLayers = {} THEN ret.value = <<>>
        ELSE ret.value = LayerInstances(Highest(MatchingLayers))


----------------------------------------------------------------------------
(* C12 *)

\* every registry entry of the stack, as <<layer, position>>
Entries ==
    UNION {{<<i, n>> : n \in 1 .. Len(stack[i].registry)} : i \in Layers}

\* the registry entries <<layer, position>> that are classes implementing
\* the interface of the last lookup and pass its predicate
ClassEntries ==
    {e \in Entries :
        LET x == stack[e[1]].registry[e[2]]
        IN  /\ IsType(x)
            /\ ret.arg.interface \in Mro(x.cls)
            /\ x \in ret.arg.predicate}

\* the registry entries <<layer, position>> that are instances of the
\* interface of the last lookup and pass its predicate
InstanceEntries ==
    {e \in Entries :
        LET x == stack[e[1]].registry[e[2]]
        IN  /\ ~IsType(x)
            /\ ret.arg.interface \in Mro(x.cls)
            /\ x \in ret.arg.predicate}

\* entry f comes before entry e: it is in a higher layer, or in the same
\* layer and was registered later
Before(f, e) == f[1] > e[1] \/ (f[1] = e[1] /\ f[2] > e[2])

\* seq lists exactly the entries es, every one once, in the order Before
ListsTopFirst(seq, es) ==
    /\ Len(seq) = Cardinality(es)
    /\ \A e \in es :
           seq[1 + Cardinality({f \in es : Before(f, e)})]
               = stack[e[1]].registry[e[2]]

\* instance a is alone in the base layer, instance b alone in the layer
\* above, and the last call looked up I1 with the default predicate
LookupOrderScenario ==
    /\ Len(stack) = 2
    /\ stack[1].registry = <<Instance("P1", 1)>>
    /\ stack[2].registry = <<Instance("P1", 2)>>
    /\ InstancesReturned
    /\ ret.arg.interface = "I1"
    /\ ret.arg.predicate = AcceptAll

\* C12: classes(X) and instances(X, find_all=True) return the matches of
\* every layer, the top layer's first and the base layer's last, each layer's
\* most recently registered first; with a in the base layer and b in the
\* layer above, instances(X) returns [b] and instances(X, find_all=True)
\* returns [b, a].
C12_AllLayersTopFirst ==
    /\ ClassesReturned => ListsTopFirst(ret.value, ClassEntries)
    /\ (InstancesReturned /\ ret.arg.find_all)
           => ListsTopFirst(ret.value, InstanceEntries)
    /\ LookupOrderScenario =>
           ret.value = IF ret.arg.find_all
                       THEN <<Instance("P1", 2), Instance("P1", 1)>>
                       ELSE <<Instance("P1", 2)>>

\* instances(I1, find_all=True) has returned [b, a]
C12_Witness ==
    /\ LookupOrderScenario
    /\ ret.arg.find_all
    /\ ret.value = <<Instance("P1", 2), Instance("P1", 1)>>


----------------------------------------------------------------------------
(* C13 *)

\* C13: instances(X) without find_all returns only the first matching
\* service: its result has at most one element, also when the layer it is
\* taken from holds several instances matching X and the predicate.
C13_AtMostOneWithoutFindAll ==
    (InstancesReturned /\ ~ret.arg.find_all) => Len(ret.value) <= 1


----------------------------------------------------------------------------
(* C14 *)

\* no object is listed twice in the sequence
NoEntryTwice(seq) ==
    \A i, j \in 1 .. Len(seq) : seq[i] = seq[j] => i = j

\* C14: Context.register(obj) appends obj to the registry only if the
\* registry does not hold it yet and returns obj in both cases; whatever is
\* registered, no registry lists an entry twice and the entries stay in the
\* order of their first registration.
C14_RegisterIsIdempotent ==
    /\ [](\A i \in Layers : NoEntryTwice(stack[i].registry))
    /\ [][ret'.op = "Context.register" =>
            LET i == ret'.arg.layer
                obj == ret'.arg.plugin
            IN  /\ ret'.value = obj
                /\ Len(stack') = Len(stack)
                /\ stack'[i].registry =
                       IF obj \in Range(stack[i].registry)
                       THEN stack[i].registry
                       ELSE Append(stack[i].registry, obj)
                /\ \A j \in Layers \ {i} : stack'[j] = stack[j]]_vars

\* register(a) has returned on a context that lists a before b: a was in the
\* registry before this call and the call added nothing
C14_Witness ==
    /\ ret.op = "Context.register"
    /\ ret.arg.plugin = Instance("P1", 1)
    /\ ret.value = Instance("P1", 1)
    /\ stack[ret.arg.layer].registry = <<Instance("P1", 1), Instance("P1", 2)>>


----------------------------------------------------------------------------
(* C15 *)

\* where the registry lists object x
Position(registry, x) == CHOOSE n \in 1 .. Len(registry) : registry[n] = x

\* seq lists its items in reverse registration order of the registry
MostRecentFirst(seq, registry) ==
    \A m, n \in 1 .. Len(seq) :
        m < n => Position(registry, seq[m]) > Position(registry, seq[n])

\* C15: for every layer, interface X and predicate (given by the entries of
\* the layer it accepts), Context.classes(X, pred)
\* returns exactly the registry entries that are types, are subclasses of X
\* and satisfy pred, Context.instances(X, pred) exactly those that are not
\* types, are instances of X and satisfy pred; both list them most recently
\* registered first, and no entry is in both results.
C15_ClassesAndInstancesFilter ==
    \A i \in Layers, X \in Interfaces :
      \A pred \in SUBSET Range(stack[i].registry) :
        LET registry == stack[i].registry
            cs == Context_classes(stack[i], X, pred)
            is == Context_instances(stack[i], X, pred)
        IN  /\ Range(cs) = {x \in Range(registry) :
                               IsType(x) /\ X \in Mro(x.cls) /\ x \in pred}
            /\ Range(is) = {x \in Range(registry) :
                               ~IsType(x) /\ X \in Mro(x.cls) /\ x \in pred}
            /\ MostRecentFirst(cs, registry)
            /\ MostRecentFirst(is, registry)
            /\ Range(cs) \cap Range(is) = {}

\* a context lists instance a, class P1 and instance b in this order;
\* instances(I1) has returned [b, a] from it and its classes(I1) is [P1]
C15_Witness ==
    /\ Len(stack) = 1
    /\ stack[1].registry = <<Instance("P1", 1), Type("P1"), Instance("P1", 2)>>
    /\ InstancesReturned
    /\ ret.arg.interface = "I1"
    /\ ret.arg.predicate = AcceptAll
    /\ ret.value = <<Instance("P1", 2), Instance("P1", 1)>>
    /\ Context_classes(stack[1], "I1", AcceptAll) = <<Type("P1")>>


----------------------------------------------------------------------------
(* Vocabulary of the call properties *)

\* the stack object's fields after the step
SelfAfter == [stack |-> stack', kvstore |-> kvstore',
              num |-> num_aggregated_kvstores', raised |-> "None"]

\* the step is a call of op that returned
Called(op) == ret'.op = op /\ ret'.raised = "None"

----------------------------------------------------------------------------
(* C16 *)

\* C16: push(x) makes the stack one layer longer, leaves the lower layers as
\* they were and makes the pushed Context the top one: a new empty Context
\* named x when x is a string, x itself otherwise; push returns it. A pop()
\* that follows returns that same Context and restores the layers that were
\* there before the push; every pop() returns and removes the top layer.
C16_PushPopAreLifo ==
    [][/\ Called("push") =>
            LET x == ret'.value
            IN  /\ x = IF ret'.arg.isstring
                       THEN [name |-> ret'.arg.name, registry |-> <<>>,
                             kvstore |-> OrderedDict]
                       ELSE ret'.arg.context
                /\ Len(stack') = Len(stack) + 1
                /\ SubSeq(stack', 1, Len(stack)) = stack
                /\ stack'[Len(stack')] = x
                /\ pop(SelfAfter, -1).raised = "None"
                /\ pop_returns(SelfAfter, -1) = x
                /\ pop(SelfAfter, -1).stack = stack
       /\ (Called("pop") /\ ret'.arg = -1) =>
            /\ Len(stack) >= 2
            /\ ret'.value = stack[Len(stack)]
            /\ stack' = SubSeq(stack, 1, Len(stack) - 1)]_vars

\* pop() has returned the Context instance ctx1 that a push had put on the
\* default base layer
C16_Witness ==
    /\ ret.op = "pop"
    /\ ret.arg = -1
    /\ ret.raised = "None"
    /\ ret.value = ContextWith("ctx1", [k \in {"name"} |-> S1])
    /\ stack = <<Context("default")>>


----------------------------------------------------------------------------
(* C17 *)

----------------------------------------------------------------------------
(* C18 *)

RECURSIVE PushAll(_, _)
\* the contexts of seq pushed one by one, in the order of seq
PushAll(st, seq) ==
    IF seq = <<>> THEN st
    ELSE PushAll(push(st, Head(seq)), Tail(seq))

\* C18: the list pop(until_size) returns is sorted for putting the popped
\* contexts on again: pushing its contexts one by one in the returned order
\* restores the layers the stack had before the pop.
C18_ReturnedOrderRestoresStack ==
    [][(Called("pop") /\ ret'.arg >= 1) =>
            PushAll(SelfAfter, ret'.value).stack = stack]_vars


----------------------------------------------------------------------------
(* C19 *)

\* C19: pop(until_size) raises when until_size is greater than the length of
\* the stack or is 0, and the failed call removes no layer and leaves the
\* cached aggregate and the count of folded layers as they were.
C19_BadUntilSizeFailsCleanly ==
    [][(ret'.op = "pop" /\ (ret'.arg > Len(stack) \/ ret'.arg = 0)) =>
            /\ ret'.raised = "ValueError"
            /\ UNCHANGED <<stack, kvstore, num_aggregated_kvstores>>]_vars

\* pop(0) has failed on a stack of three layers whose aggregate was cached
C19_Witness ==
    /\ ret.op = "pop"
    /\ ret.arg = 0
    /\ ret.raised = "ValueError"
    /\ Len(stack) = 3
    /\ kvstore.has
    /\ num_aggregated_kvstores = 3


----------------------------------------------------------------------------
(* C20 *)

\* C20: reset(env), from any state, leaves a stack of exactly one layer: env
\* when one is supplied, otherwise a new empty Context named 'default'. The
\* layers that were there are off the stack, the cache is dropped, and reset
\* returns the stack object itself.
C20_ResetLeavesOneLayer ==
    [][ret'.op = "reset" =>
            /\ ret'.raised = "None"
            /\ ret'.value = "self"
            /\ stack' = << IF ret'.arg.given
                           THEN ret'.arg.context
                           ELSE [name |-> "default", registry |-> <<>>,
                                 kvstore |-> OrderedDict] >>
            /\ ~kvstore'.has
            /\ num_aggregated_kvstores' = 0]_vars

\* reset(ctx1) has returned: ctx1 is the only layer and nothing is cached
C20_Witness ==
    /\ ret.op = "reset"
    /\ ret.arg.given
    /\ ret.value = "self"
    /\ stack = <<ContextWith("ctx1", [k \in {"name"} |-> S1])>>
    /\ kvstore = Unset


----------------------------------------------------------------------------
(* Vocabulary of the creation properties *)

\* the step is a new_instances call, returning or raising
NewInstancesStep == ret'.op = "new_instances"

\* the last call was new_instances
NewInstancesDone == ret.op = "new_instances"

\* the registry entries of layer i
Registry(i) == stack[i].registry

----------------------------------------------------------------------------
(* C21 *)

\* C21: while a constructor runs inside new_instances the
\* _auto_register_instance flag of its class is False, and when
\* new_instances returns or raises, the flag of every class has the value it
\* had before the call, also when a constructor raised.
C21_AutoRegisterSuppressedAndRestored ==
    [][NewInstancesStep =>
            /\ \A n \in 1 .. Len(ret'.observed) : ~ret'.observed[n].flag
            /\ auto_register_instance' = auto_register_instance]_vars

\* new_instances has raised out of the constructor of P1, which ran with the
\* flag False, and the flag of P1 is True as before
C21_Witness ==
    /\ NewInstancesDone
    /\ ret.raised = "Error"
    /\ ret.observed # <<>>
    /\ ret.observed[Len(ret.observed)] = [cls |-> Type("P1"), flag |-> FALSE]
    /\ auto_register_instance["P1"]


----------------------------------------------------------------------------
(* C22 *)

\* C22: new_instances with take_ownership false changes no registry: every
\* layer holds after the call exactly the entries it held before, and no
\* registry lists a created instance.
C22_NoOwnershipChangesNoRegistry ==
    [][(NewInstancesStep /\ ~ret'.arg.take_ownership) =>
            /\ stack' = stack
            /\ \A i \in 1 .. Len(stack'), n \in 1 .. Len(ret'.value) :
                   ret'.value[n] \notin Range(stack'[i].registry)]_vars

\* new_instances(I1) has returned two instances and the registries hold the
\* two classes only
C22_Witness ==
    /\ NewInstancesDone
    /\ ~ret.arg.take_ownership
    /\ ret.raised = "None"
    /\ Len(ret.value) = 2
    /\ auto_register_instance["P1"]
    /\ \A i \in Layers : \A x \in Range(Registry(i)) : IsType(x)

----------------------------------------------------------------------------
(* C23 *)

\* the instances of capability I1 a lookup finds in the stack object st
Found(st) == Range(instances(st, "I1", AllItems, FALSE))

\* the created instances are in the registry of layer top and of no other
OnlyInLayer(stk, top, created) ==
    \A n \in 1 .. Len(created), i \in 1 .. Len(stk) :
        created[n] \in Range(stk[i].registry) <=> i = top

----------------------------------------------------------------------------
(* C24 *)

\* the classes new_instances(interface) walks over, as the stack lists them
\* when the call starts
Candidates == classes(Self, ret'.arg.interface, AllItems)

\* the positions of the maycreate log of the step that asked about class t
Asked(t) == {n \in 1 .. Len(ret'.calls) : ret'.calls[n].cls = t}

\* the positions of the returned list that hold an instance of class t
Made(t) == {n \in 1 .. Len(ret'.value) : ret'.value[n].cls = t.cls}

\* C24: a new_instances(X, maycreate) call that returns asked maycreate about
\* the classes of classes(X) in that order, once for every type, each time
\* with the instances created so far; a type was constructed exactly once if
\* maycreate said yes and not at all otherwise; no returned instance was in
\* a registry before the call.
C24_OncePerType ==
    [][(NewInstancesStep /\ ret'.raised = "None") =>
         /\ [n \in 1 .. Len(ret'.calls) |-> ret'.calls[n].cls] = Candidates
         /\ \A t \in Range(Candidates) :
              /\ Cardinality(Asked(t)) = 1
              /\ \A n \in Asked(t) :
                    IF MayCreate(ret'.arg.maycreate, t, ret'.calls[n].instances)
                    THEN Cardinality(Made(t)) = 1
                    ELSE Made(t) = {}
         /\ \A n \in 1 .. Len(ret'.value), i \in 1 .. Len(stack) :
                ret'.value[n] \notin Range(Registry(i))]_vars

----------------------------------------------------------------------------
(* C25 *)

\* the step is a call that reads the client's values
ReadsValues == ret'.op \in {"value_cache", "property"} /\ ret'.raised = "None"

\* C25: a new client has no value cache. has_value_cache() reports whether
\* there is one and changes nothing; clear_value_cache() returns the client
\* and leaves no cache, with or without one before; value_cache() and a
\* property read leave a cache that holds every property of the schema, and
\* keep the one that was there; no other call creates a cache, and only
\* clear_value_cache() removes one.
C25_ValueCacheLifecycle ==
    /\ ~value_cache.has
    /\ [][/\ ret'.op = "has_value_cache"
               => /\ ret'.has = value_cache.has
                  /\ value_cache' = value_cache
          /\ ret'.op = "clear_value_cache"
               => /\ ret'.self = "client"
                  /\ ~value_cache'.has
          /\ ReadsValues
               => /\ value_cache'.has
                  /\ DOMAIN value_cache'.data = ClientSchema
                  /\ value_cache.has => value_cache' = value_cache
          /\ ~ReadsValues => (value_cache'.has => value_cache.has)
          /\ ret'.op # "clear_value_cache"
               => (value_cache.has => value_cache'.has)]_vars

\* a property was read while the client had no cache and two layers were on
\* the stack: the cache now holds both properties, resolved against the
\* settings
C25_Witness ==
    /\ ret.op = "property"
    /\ ret.arg = "name"
    /\ ret.raised = "None"
    /\ Len(stack) = 2
    /\ value_cache.has
    /\ value_cache.data["level"] = S2
    /\ value_cache.data["name"] = ret.value

----------------------------------------------------------------------------
(* Vocabulary of the cache properties *)

\* the state of the aggregate cache of a stack object with the layers stk,
\* the _kvstore slot kv and the folded count num
CacheState(stk, kv, num) ==
    CASE kv.has /\ num = Len(stk)             -> "VALID"
      [] kv.has /\ num >= 1 /\ num < Len(stk) -> "STALE"
      [] ~kv.has /\ num = 0                   -> "INVALID"
      [] OTHER                                -> "NONE"

CacheBefore == CacheState(stack, kvstore, num_aggregated_kvstores)

CacheAfter == CacheState(stack', kvstore', num_aggregated_kvstores')

----------------------------------------------------------------------------
(* C26 *)

\* C26: the folded count is never below 0 and never above the number of
\* layers on the stack, after every push, pop, pop(until_size), reset and
\* settings() call, the failed ones included.
C26_FoldedCountWithinStack ==
    /\ num_aggregated_kvstores >= 0
    /\ num_aggregated_kvstores <= Len(stack)

\* a pop(until_size) has failed on a stack of two or more layers whose cache
\* held them all
C26_Witness ==
    /\ ret.op = "pop"
    /\ ret.arg # -1
    /\ ret.raised = "ValueError"
    /\ Len(stack) >= 2
    /\ num_aggregated_kvstores = Len(stack)

----------------------------------------------------------------------------
(* C27 *)

\* C27: the cached aggregate is there exactly when the folded count is 1 or
\* more, and then it is the fold of the first folded-count layers of the
\* stack; a cache never goes with a folded count of 0.
C27_CacheIsFoldOfCountedLayers ==
    /\ kvstore.has <=> num_aggregated_kvstores >= 1
    /\ kvstore.has =>
          kvstore.data = FoldAll(SubSeq(stack, 1, num_aggregated_kvstores))
    /\ ~kvstore.has => kvstore = Unset

\* the cache holds the base layer's tree alone while two layers that set the
\* same key were pushed after it was filled
C27_Witness ==
    /\ kvstore.has
    /\ num_aggregated_kvstores = 1
    /\ Len(stack) = 3
    /\ Tree(1) = [k \in {"name"} |-> S1]
    /\ Tree(2) = [k \in {"name"} |-> S2]
    /\ kvstore.data = [k \in {"name"} |-> S1]

----------------------------------------------------------------------------
(* C28 *)

\* C28: a push appends one layer and changes neither the cached aggregate,
\* present or not, nor the folded count: from VALID it leads to STALE, from
\* STALE to STALE and from INVALID to INVALID.
C28_PushLeavesCacheAlone ==
    [][ret'.op = "push" =>
         /\ Len(stack') = Len(stack) + 1
         /\ SubSeq(stack', 1, Len(stack)) = stack
         /\ UNCHANGED <<kvstore, num_aggregated_kvstores>>
         /\ CacheBefore = "VALID" => CacheAfter = "STALE"
         /\ CacheBefore = "STALE" => CacheAfter = "STALE"
         /\ CacheBefore = "INVALID" => CacheAfter = "INVALID"]_vars

\* a layer was pushed onto a stack of two layers whose cache was valid
C28_Witness ==
    /\ ret.op = "push"
    /\ Len(stack) = 3
    /\ num_aggregated_kvstores = 2
    /\ CacheBefore = "STALE"
    /\ DOMAIN kvstore.data # {}

----------------------------------------------------------------------------
(* C29 *)

\* the step is a pop, with or without until_size, that removed a layer
Removal == ret'.op = "pop" /\ Len(stack') < Len(stack)

\* C29: every pop that removes one or more layers and every reset leaves the
\* cached aggregate absent and the folded count 0, whatever they were before.
C29_RemovalInvalidates ==
    [][(Removal \/ ret'.op = "reset") =>
         /\ kvstore' = Unset
         /\ num_aggregated_kvstores' = 0
         /\ CacheAfter = "INVALID"]_vars

\* pop() has removed the third layer and left no cache
C29_Witness ==
    /\ ret = [op |-> "pop", arg |-> -1, raised |-> "None"]
    /\ Len(stack) = 2
    /\ CacheBefore = "INVALID"
    /\ DOMAIN Tree(2) # {}

----------------------------------------------------------------------------
(* C30 *)

\* C30: settings() returns from every cache state with the cache present and
\* the folded count equal to the number of layers; it never changes the
\* layers, and called in the VALID state it changes nothing: the cached
\* aggregate it returns is the one that was there.
C30_SettingsEndsValid ==
    [][ret'.op = "settings" =>
         /\ ret'.raised = "None"
         /\ CacheBefore \in {"VALID", "STALE", "INVALID"}
         /\ CacheAfter = "VALID"
         /\ stack' = stack
         /\ CacheBefore = "VALID"
               => UNCHANGED <<kvstore, num_aggregated_kvstores>>]_vars

\* settings() has returned for three layers, the top one setting a key that
\* the aggregate holds
C30_Witness ==
    /\ Returned
    /\ Len(stack) = 3
    /\ CacheBefore = "VALID"
    /\ Tree(3) = [k \in {"name"} |-> S2]
    /\ Holds("name", S2)

----------------------------------------------------------------------------
(* C31 *)

\* C31: pop(until_size) with until_size equal to the length of the stack
\* raises nothing, returns an empty list, removes no layer and leaves the
\* cached aggregate and the folded count as they were.
C31_PopToOwnSizeIsNoOp ==
    [][(ret'.op = "pop" /\ ret'.arg = Len(stack)) =>
            /\ ret'.raised = "None"
            /\ ret'.value = <<>>
            /\ UNCHANGED <<stack, kvstore, num_aggregated_kvstores>>]_vars

\* pop(3) has returned an empty list on a stack of three layers whose
\* aggregate was cached
C31_Witness ==
    /\ ret.op = "pop"
    /\ ret.arg = 3
    /\ ret.raised = "None"
    /\ ret.value = <<>>
    /\ Len(stack) = 3
    /\ kvstore.has
    /\ num_aggregated_kvstores = 3

----------------------------------------------------------------------------
(* C32 *)

\* the layers of a stack without their registries: which contexts are on it
\* and what they set
LayerSequence(stk) ==
    [i \in 1 .. Len(stk) |-> [name |-> stk[i].name, kvstore |-> stk[i].kvstore]]

\* C32: classes, instances, new_instances and register on the stack leave the
\* cached aggregate, the folded count and the sequence of layers as they
\* were, whether they return or raise; classes and instances leave every
\* registry as it was, too.
C32_RegistryCallsLeaveCacheAlone ==
    [][/\ ret'.op \in {"classes", "instances", "new_instances", "register"}
            => /\ UNCHANGED <<kvstore, num_aggregated_kvstores>>
               /\ LayerSequence(stack') = LayerSequence(stack)
       /\ ret'.op \in {"classes", "instances"} => stack' = stack]_vars

\* new_instances(I1, take_ownership = True) has registered an instance in
\* the top layer of a stack of two layers whose aggregate was cached
C32_Witness ==
    /\ NewInstancesDone
    /\ ret.arg.take_ownership
    /\ Len(ret.value) = 1
    /\ Len(stack) = 2
    /\ ret.value[1] \in Range(Registry(2))
    /\ kvstore.has
    /\ num_aggregated_kvstores = 2
    /\ DOMAIN kvstore.data # {}

----------------------------------------------------------------------------
(* C33 *)

RECURSIVE FoldOnto(_, _)
\* the trees of the layers of stk folded, bottom to top, onto the tree base
FoldOnto(base, stk) ==
    IF stk = <<>> THEN base
    ELSE FoldOnto(Diff(base, Settings(Head(stk))), Tail(stk))

\* the layers the cache does not hold yet
NotFolded ==
    SubSeq(stack, num_aggregated_kvstores + 1, Len(stack))

\* C33: an edit of a layer's tree leaves the cached aggregate and the folded
\* count as they were. settings() then returns the cached aggregate as it
\* is when all layers are folded, whatever the layers hold by now; with
\* layers not folded yet it folds those, as they are now, onto the cached
\* aggregate; and after a pop that removed a layer or a reset, which leave
\* no cache, it folds all layers as they are now.
C33_EditsOfFoldedLayersAreNotSeen ==
    [][/\ ret'.op = "edit"
            => UNCHANGED <<kvstore, num_aggregated_kvstores>>
       /\ (Removal \/ ret'.op = "reset") => CacheAfter = "INVALID"
       /\ ret'.op = "settings"
            => /\ ret'.raised = "None"
               /\ CacheBefore = "VALID" => kvstore' = kvstore
               /\ CacheBefore = "STALE"
                     => kvstore'.data = FoldOnto(kvstore.data, NotFolded)
               /\ CacheBefore = "INVALID"
                     => kvstore'.data = FoldAll(stack)]_vars

\* settings() has returned "1" for the key that the base layer, edited after
\* it was folded, sets to "2" now
C33_Witness ==
    /\ Returned
    /\ Len(stack) = 1
    /\ Tree(1) = [k \in {"name"} |-> S2]
    /\ kvstore.data = [k \in {"name"} |-> S1]

----------------------------------------------------------------------------
(* C34 *)

\* the last call was schema_validator()
ValidatorReturned == ret.op = "schema_validator" /\ ret.raised = "None"

\* the registered ContextStackClient instances of layer i, oldest first
ClientsOf(i) ==
    SelectSeq(Registry(i),
              LAMBDA x : ~IsType(x) /\ "ContextStackClient" \in Mro(x.cls))

\* what schema_validator meets in layer i, in the order it meets it: the
\* layer's own schema (own: TRUE) if it has one, then the schemas of the
\* layer's clients in registration order
VisitsOf(i) ==
    (IF HasSchema(stack[i])
     THEN <<[own |-> TRUE, schema |-> stack[i].schema]>> ELSE <<>>)
    \o [n \in 1 .. Len(ClientsOf(i)) |->
           [own |-> FALSE, schema |-> ClientSchemaOf(ClientsOf(i)[n])]]

RECURSIVE VisitsUpTo(_)
\* the visits of the layers 1 .. i, bottom to top
VisitsUpTo(i) == IF i < 1 THEN <<>> ELSE VisitsUpTo(i - 1) \o VisitsOf(i)

Visits == VisitsUpTo(Len(stack))

\* the schema of visit p was met in an earlier visit
MetBefore(p) == \E q \in 1 .. (p - 1) : Visits[q].schema = Visits[p].schema

RECURSIVE SchemasKept(_, _)
\* the schemas of the visits p .. Len(Visits) that are in keep, in order
SchemasKept(keep, p) ==
    IF p > Len(Visits) THEN <<>>
    ELSE (IF p \in keep THEN <<Visits[p].schema>> ELSE <<>>)
         \o SchemasKept(keep, p + 1)

\* C34 as claimed: the validator holds the schemas in the order of the
\* visits, bottom layer first, own schema before the clients' schemas,
\* clients oldest first, and no schema is in it a second time.
C34_NoSchemaTwice ==
    ValidatorReturned =>
        ret.value = SchemasKept({p \in 1 .. Len(Visits) : ~MetBefore(p)}, 1)

\* C34 amended: the validator holds the schemas in the order of the visits,
\* bottom layer first, own schema before the clients' schemas, clients
\* oldest first; a client's schema is left out when it was met before, a
\* layer's own schema is appended whether or not it was met before, so that
\* a schema is in the validator once for every layer that carries it as its
\* own, and once more when a client brought it in first.
C34_OnlyClientSchemasAreSkipped ==
    ValidatorReturned =>
        ret.value = SchemasKept({p \in 1 .. Len(Visits) :
                                    Visits[p].own \/ ~MetBefore(p)}, 1)

\* schema_validator() has returned for a client of CB in the base layer and
\* a layer above it that carries the schema "SA" and holds a client of CA,
\* whose schema was skipped
C34_Witness ==
    /\ ValidatorReturned
    /\ Len(stack) = 2
    /\ Registry(1) = <<Instance("CB", 3)>>
    /\ HasSchema(stack[2])
    /\ Registry(2) = <<Instance("CA", 1)>>
    /\ ret.value = <<"SB", "SA">>

----------------------------------------------------------------------------
(* C35 *)

\* how often the sequence lists object x
Occurrences(seq, x) == Cardinality({n \in 1 .. Len(seq) : seq[n] = x})

\* C35: register(obj) on the stack leaves obj exactly once in the registry of
\* the layer that is on top and changes nothing else: the other entries of
\* that registry, the layers below it and the number of layers stay. A push
\* leaves every layer that was on the stack, its registry included, where it
\* was, so what was registered before the push is still in the layer that
\* was on top then, and not in the new one.
C35_RegisterInTopLayerOnly ==
    [][/\ ret'.op = "register"
            => /\ Len(stack') = Len(stack)
               /\ Occurrences(stack'[Len(stack')].registry, ret'.arg) = 1
               /\ stack'[Len(stack')].registry
                      \in {Registry(Len(stack)),
                           Append(Registry(Len(stack)), ret'.arg)}
               /\ \A j \in 1 .. (Len(stack) - 1) : stack'[j] = stack[j]
       /\ ret'.op = "push"
            => /\ Len(stack') = Len(stack) + 1
               /\ \A j \in Layers : stack'[j] = stack[j]
               /\ stack'[Len(stack')].registry = <<>>]_vars

\* register(b) has returned with b in the top layer alone, while a,
\* registered before the push, is in the base layer alone
C35_Witness ==
    /\ ret.op = "register"
    /\ ret.arg = Instance("P1", 2)
    /\ Len(stack) = 2
    /\ Registry(1) = <<Instance("P1", 1)>>
    /\ Registry(2) = <<Instance("P1", 2)>>

----------------------------------------------------------------------------
(* C36 *)

\* the classes of the walk whose constructor raises in the call of the step
Failing == {k \in 1 .. Len(Candidates) : Candidates[k].cls \in ret'.arg.raising}

\* the first of them
FirstFailing == CHOOSE k \in Failing : \A j \in Failing : k <= j

\* C36: when the constructor of the k-th class of the walk raises during
\* new_instances(take_ownership = True), the call raises; the instances of
\* the k - 1 classes before it were created, one for each and in that
\* order, and they are the entries the call has added to the top layer's
\* registry; the failing class and the classes after it have no instance
\* there, and the layers below are as they were.
C36_NoRollbackOnFailure ==
    [][(NewInstancesStep /\ ret'.arg.take_ownership
            /\ ret'.arg.maycreate = "Always" /\ Failing # {}) =>
          /\ ret'.raised = "Error"
          /\ Len(ret'.value) = FirstFailing - 1
          /\ \A n \in 1 .. Len(ret'.value) :
                /\ ~IsType(ret'.value[n])
                /\ ret'.value[n].cls = Candidates[n].cls
                /\ ret'.value[n] \notin Range(Registry(Len(stack)))
          /\ Len(stack') = Len(stack)
          /\ stack'[Len(stack')].registry
                = Registry(Len(stack)) \o ret'.value
          /\ \A j \in 1 .. (Len(stack) - 1) : stack'[j] = stack[j]]_vars

\* new_instances(I1, take_ownership = True) has raised in the constructor of
\* the second class of its walk, and the instance of the first is
\* registered in the top layer
C36_Witness ==
    /\ NewInstancesDone
    /\ ret.arg.take_ownership
    /\ ret.raised = "Error"
    /\ Len(ret.value) = 1
    /\ Len(ret.calls) = 2
    /\ Len(stack) = 2
    /\ ret.value[1] \in Range(Registry(2))
    /\ \A x \in Range(Registry(1)) \cup Range(Registry(2)) :
           ~IsType(x) => x = ret.value[1]

----------------------------------------------------------------------------
(* C37..C39: DaemonCommandMixin.execute *)

\* execute was called with a pid_file that was there as a file
CalledOnExistingPidFile == daemon.given /\ daemon.existed

\* what execute leaves alone when it goes no further than the PID file:
\* no daemonize, no SIGTERM handler, no thread, the PID file still there
NothingStarted ==
    /\ daemon.pc = "done"
    /\ ~daemon.daemonized
    /\ ~daemon.installed /\ daemon.handler = "previous"
    /\ daemon.thread = "none" /\ ~daemon.dt /\ daemon.stops = 0
    /\ daemon.file

\* C37 as stated: execute called with a pid_file that already exists as a
\* file returns ERROR without daemonizing, without installing a SIGTERM
\* handler, without creating or starting the thread and without removing
\* the PID file.
C37_ExistingPidFileReturnsError ==
    CalledOnExistingPidFile =>
        /\ daemon.result = "ERROR"
        /\ NothingStarted

\* C37, amended: called with a pid_file that already exists, execute
\* returns ERROR unless args.show_config is set, in which case it returns
\* SUCCESS before it looks at the PID file; either way it does not
\* daemonize, installs no SIGTERM handler, creates and starts no thread and
\* leaves the PID file where it is. args.pid_file is None afterwards
\* exactly when the file was looked at.
C37_ExistingPidFileStartsNothing ==
    CalledOnExistingPidFile =>
        /\ daemon.result = IF daemon.show_config THEN "SUCCESS" ELSE "ERROR"
        /\ daemon.pid_file = IF daemon.show_config THEN "path" ELSE "None"
        /\ NothingStarted

C37_Witness ==
    /\ CalledOnExistingPidFile
    /\ ~daemon.show_config
    /\ daemon.result = "ERROR"
    /\ daemon.pc = "done"

\* execute has installed its SIGTERM handler and has been left
LeftAfterInstalling == daemon.pc = "done" /\ daemon.installed

\* the thread was asked to stop and was joined
StoppedAndJoined == daemon.stops > 0 /\ daemon.thread = "joined"

\* C38: once execute has installed its SIGTERM handler, every way of
\* leaving it restores the SIGTERM handler that was installed before and
\* removes the PID file if one was given and exists; on the interrupt and
\* exception paths the thread has been asked to stop and been joined before
\* execute returns.
C38_EveryExitRestores ==
    LeftAfterInstalling =>
        /\ daemon.handler = "previous"
        /\ ~(daemon.pid_file = "path" /\ daemon.file)
        /\ daemon.left \in {"interrupt", "exception"} => StoppedAndJoined

\* a SIGTERM is delivered and the handler execute installed runs
HandlerRuns == daemon'.signals = daemon.signals + 1

\* C39: in every interleaving of SIGTERM delivery with execute, the handler
\* that execute installed runs only when the daemon thread object already
\* exists and is bound to dt: every SIGTERM delivered after the handler is
\* installed results in stop_and_join being called on the thread.
C39_HandlerAlwaysStopsThread ==
    [][HandlerRuns =>
          /\ daemon.dt
          /\ daemon.thread # "none"
          /\ daemon'.stops = daemon.stops + 1
          /\ daemon'.handled = "stopped"]_vars


====
